---- MODULE Spec2Model ----
(***************************************************************************)
(* Model of six parts of the program:                                      *)
(*   - the agent session store (session index + JSONL transcripts) of      *)
(*     src/unnamed/part_000 (agent-session-manager);                       *)
(*   - the activity list of a turn, ToolActivityItem.tsx (grouping of Task *)
(*     activities and the status a group shows);                           *)
(*   - the workspace watcher of src/unnamed/part_000 (fs.watch with two    *)
(*     debounced notification channels);                                   *)
(*   - the context usage badge, ContextUsageBadge.tsx;                     *)
(*   - the workspace selector of ToolActivityItem.tsx;                     *)
(*   - the MCP servers of a workspace, AboutSettings.tsx (AgentSettings)   *)
(*     and src/unnamed/part_002 (McpServerForm).                           *)
(*                                                                         *)
(* The index file and the transcript files are the state of the store.     *)
(* Every exported function is one action; its inputs and the outcome of    *)
(* each file system call it makes (success or failure) are chosen with \E. *)
(*                                                                         *)
(* Specifications:                                                         *)
(*   Spec          every file system call succeeds, session metadata varies*)
(*   SpecCreate    every file system call succeeds, short runs of creates  *)
(*   SpecLog       every file system call succeeds, message texts vary     *)
(*   SpecIO        file system calls may fail (the call has no effect then)*)
(*   SpecCrash     the process may die inside an append (torn last line)   *)
(*   SpecDisk      the index file may hold anything                        *)
(*   SpecRace      two callers whose calls overlap between index read and  *)
(*                 index write                                             *)
(*   SpecView      the activity list, rendered as activities arrive        *)
(*   SpecDebounce  one watcher started once, the window stays open         *)
(*   SpecWatch     any sequence of start and stop, the window may close    *)
(*   SpecLive      one watcher, the event loop is sure to run its timers   *)
(*   SpecBadge     the context usage badge, rendered and clicked           *)
(*   SpecSelector  the workspace selector with handlers that overlap       *)
(*   SpecMcp       the MCP servers page, its form and the agent as writers *)
(* Date.now() is taken as non-decreasing and randomUUID() as never         *)
(* returning an id twice.  Each part leaves the variables of the others    *)
(* unchanged.                                                              *)
(***************************************************************************)
EXTENDS Integers, Sequences, FiniteSets, TLC

(* ------------------------------------------------------------------ *)
(* Bounds of the model                                                 *)
(* ------------------------------------------------------------------ *)
\* number of ids randomUUID() hands out (createAgentSession calls that reach it)
MaxSessions == 3
\* total number of lines appended to transcripts (whole or torn)
MaxAppends == 2
\* largest value of the clock read by Date.now()
MaxTime == 1
\* number of calls and clock ticks in one run, by specification
MaxSteps == 5
MaxStepsIO == 6
MaxStepsLog == 6
MaxStepsCrash == 4
MaxStepsDisk == 4
MaxStepsRace == 6
MaxStepsCreate == 4
MaxStepsDebounce == 10
MaxStepsWatch == 8
\* number of activities of one turn
MaxActivities == 3
\* number of FSWatchers fs.watch() hands out
MaxWatchers == 2
\* largest time of the event loop, in ms
MaxClock == 1500
\* largest small inputTokens and contextWindow the badge is rendered with
MaxTokens == 8
MaxWindow == 10
\* number of clicks on the badge in one run
MaxClicks == 2
\* number of calls of the settings page suspended at once, and of its steps
MaxInflight == 2
MaxStepsMcp == 8
\* number of start calls and change events in a run whose timers are sure to fire
MaxStepsLive == 4
\* number of workspace ids the main process hands out, the default one included
MaxWorkspaces == 3
\* number of handlers of the selector that may be suspended at once
MaxPending == 2
\* number of steps of the workspace selector in one run
MaxStepsSelector == 12

(* ------------------------------------------------------------------ *)
(* Values                                                              *)
(* ------------------------------------------------------------------ *)
INDEX_VERSION == 1
\* the debounce delay, in ms
DEBOUNCE_MS == 500

\* JavaScript's undefined: the value of an optional field that is not set
Undef == "undefined"
\* the title createAgentSession falls back to
DefaultTitle == "New Agent Session"
\* a transcript file: missing, or its characters
NoFile == [exists |-> FALSE, raw |-> <<>>]
\* no value returned
NoVal == [none |-> TRUE]

\* ids: 0 is an id randomUUID() never produced; 1.. are produced in order
UnknownId == 0
Ids == 0..MaxSessions

\* characters of a transcript file that matter to the reader
NL == "NL"
BS == "BS"
QT == "QT"
SP == "SP"
\* a message: a role and a text.  The text may hold any character,
\* line breaks, quotes and backslashes included.
Roles == {"u", "a"}
Msg(r, c) == [role |-> r, content |-> c]

(* ------------------------------------------------------------------ *)
(* JSON text of a message (JSON.stringify / JSON.parse)                *)
(* ------------------------------------------------------------------ *)
\* mutant: the text is written as it is, line breaks included
EscapeCharRaw(c) == <<c>>

\* JSON.stringify of one character inside a string literal
EscapeChar(c) ==
  CASE c = NL -> <<BS, "n">>
    [] c = BS -> <<BS, BS>>
    [] c = QT -> <<BS, QT>>
    [] OTHER  -> <<c>>

RECURSIVE Escape(_)
Escape(s) == IF s = <<>> THEN <<>> ELSE EscapeChar(Head(s)) \o Escape(Tail(s))

\* JSON.stringify(message): one object, no line break in it
Stringify(m) == <<"{", m.role, QT>> \o Escape(m.content) \o <<QT, "}">>

\* the string literal of s that starts after the opening quote at position i:
\* its value and the position after the closing quote, or ok = FALSE
RECURSIVE DecodeStr(_, _, _)
DecodeStr(s, i, acc) ==
  IF i > Len(s) THEN [ok |-> FALSE, val |-> <<>>, next |-> i]
  ELSE IF s[i] = QT THEN [ok |-> TRUE, val |-> acc, next |-> i + 1]
  ELSE IF s[i] = NL THEN [ok |-> FALSE, val |-> <<>>, next |-> i]
  ELSE IF s[i] = BS THEN
    IF i + 1 > Len(s) THEN [ok |-> FALSE, val |-> <<>>, next |-> i]
    ELSE IF s[i + 1] = "n" THEN DecodeStr(s, i + 2, Append(acc, NL))
    ELSE IF s[i + 1] = BS THEN DecodeStr(s, i + 2, Append(acc, BS))
    ELSE IF s[i + 1] = QT THEN DecodeStr(s, i + 2, Append(acc, QT))
    ELSE [ok |-> FALSE, val |-> <<>>, next |-> i]
  ELSE DecodeStr(s, i + 1, Append(acc, s[i]))

\* s without the white space at its two ends
RECURSIVE TrimLeft(_)
TrimLeft(s) == IF s # <<>> /\ Head(s) = SP THEN TrimLeft(Tail(s)) ELSE s
RECURSIVE TrimRight(_)
TrimRight(s) ==
  IF s # <<>> /\ s[Len(s)] = SP THEN TrimRight(SubSeq(s, 1, Len(s) - 1)) ELSE s
Trim(s) == TrimRight(TrimLeft(s))

\* JSON.parse(line): the message, or ok = FALSE where JSON.parse throws
ParseLine(line) ==
  LET t == Trim(line)
      d == DecodeStr(t, 4, <<>>)
  IN  IF /\ Len(t) >= 5
         /\ t[1] = "{"
         /\ t[2] \in Roles
         /\ t[3] = QT
         /\ d.ok
         /\ d.next = Len(t)
         /\ t[Len(t)] = "}"
      THEN [ok |-> TRUE, val |-> Msg(t[2], d.val)]
      ELSE [ok |-> FALSE, val |-> Undef]

\* raw.split('\n')
RECURSIVE SplitFrom(_, _)
SplitFrom(s, cur) ==
  IF s = <<>> THEN <<cur>>
  ELSE IF Head(s) = NL THEN <<cur>> \o SplitFrom(Tail(s), <<>>)
  ELSE SplitFrom(Tail(s), Append(cur, Head(s)))
Split(raw) == SplitFrom(raw, <<>>)

\* .filter((line) => line.trim())
RECURSIVE FilterNonBlank(_)
FilterNonBlank(lines) ==
  IF lines = <<>> THEN <<>>
  ELSE IF Trim(Head(lines)) # <<>>
       THEN <<Head(lines)>> \o FilterNonBlank(Tail(lines))
       ELSE FilterNonBlank(Tail(lines))

\* getAgentSessionMessages that leaves out the lines JSON.parse rejects
ReadMessagesSkipBad(file) ==
  IF ~file.exists THEN <<>>
  ELSE LET lines == FilterNonBlank(Split(file.raw))
           RECURSIVE Good(_)
           Good(l) == IF l = <<>> THEN <<>>
                      ELSE IF ParseLine(Head(l)).ok
                           THEN <<ParseLine(Head(l)).val>> \o Good(Tail(l))
                           ELSE Good(Tail(l))
       IN  Good(lines)

\* getAgentSessionMessages on the content of the transcript file: a missing
\* file gives [], and so does a file with a line JSON.parse rejects (the catch)
ReadMessages(file) ==
  IF ~file.exists THEN <<>>
  ELSE LET lines == FilterNonBlank(Split(file.raw))
       IN  IF \A i \in 1..Len(lines) : ParseLine(lines[i]).ok
           THEN [i \in 1..Len(lines) |-> ParseLine(lines[i]).val]
           ELSE <<>>

(* ------------------------------------------------------------------ *)
(* The index file                                                      *)
(* ------------------------------------------------------------------ *)
\* fields of AgentSessionMeta that may be undefined
OptionalKeys == {"channelId", "sdkSessionId", "workspaceId"}

\* obj.k of a JavaScript object: undefined when the key is missing
Get(obj, k) == IF k \in DOMAIN obj THEN obj[k] ELSE Undef

\* JSON.stringify then JSON.parse of one session object: a key whose value
\* is undefined is not written, so it is missing when read back
ToJSON(obj) ==
  LET keep == {k \in DOMAIN obj : k \notin OptionalKeys \/ obj[k] # Undef}
  IN  [k \in keep |-> obj[k]]

\* the index file: kind says what is on disk
\*   "absent"      no file
\*   "valid"       JSON written by writeIndex: { version, sessions: [...] }
\*   "unreadable"  the file exists and readFileSync throws
\*   "badjson"     not JSON
\*   "null"        the JSON value null
\*   "nosessions"  JSON without a sessions list, such as {} or 1
IndexFile(kind, version, sessions) ==
  [kind |-> kind, version |-> version, sessions |-> sessions]
NoIndexFile == IndexFile("absent", INDEX_VERSION, <<>>)

\* readIndex: what the file parses to.  shape "index" is an object with a
\* sessions list; the catch turns an unreadable or non-JSON file into the
\* empty index, every JSON value is returned as it is
ReadIndex(file) ==
  CASE file.kind = "valid" ->
         [shape |-> "index", version |-> file.version, sessions |-> file.sessions]
    [] file.kind \in {"absent", "unreadable", "badjson"} ->
         [shape |-> "index", version |-> INDEX_VERSION, sessions |-> <<>>]
    [] OTHER ->
         [shape |-> file.kind, version |-> INDEX_VERSION, sessions |-> <<>>]

\* mutant: the catch logs the failure and does not throw
WriteIndexSwallow(file, index, fails) ==
  IF fails
  THEN [threw |-> FALSE, file |-> file]
  ELSE [threw |-> FALSE,
        file |-> IndexFile("valid", index.version,
                           [i \in 1..Len(index.sessions) |-> ToJSON(index.sessions[i])])]

\* writeIndex: writeFileSync of the whole document; a failure is caught and
\* thrown again as the index write error.  fails is the outcome of the
\* writeFileSync call.
WriteIndex(file, index, fails) ==
  IF fails
  THEN [threw |-> TRUE, file |-> file]
  ELSE [threw |-> FALSE,
        file |-> IndexFile("valid", index.version,
                           [i \in 1..Len(index.sessions) |-> ToJSON(index.sessions[i])])]

\* mutant: the -1 of a missing id is used as a position, which JavaScript
\* counts from the end of the list
FindIndexOrLast(sessions, id) ==
  IF \E i \in 1..Len(sessions) : sessions[i].id = id
  THEN CHOOSE i \in 1..Len(sessions) :
         /\ sessions[i].id = id
         /\ \A j \in 1..(i - 1) : sessions[j].id # id
  ELSE Len(sessions)

\* sessions.findIndex((s) => s.id === id), 1-based; 0 stands for -1
FindIndex(sessions, id) ==
  IF \E i \in 1..Len(sessions) : sessions[i].id = id
  THEN CHOOSE i \in 1..Len(sessions) :
         /\ sessions[i].id = id
         /\ \A j \in 1..(i - 1) : sessions[j].id # id
  ELSE 0

\* mutant: the comparator is a.updatedAt - b.updatedAt, oldest first
RECURSIVE InsertAsc(_, _)
InsertAsc(sorted, x) ==
  IF sorted = <<>> THEN <<x>>
  ELSE IF Head(sorted).updatedAt <= x.updatedAt
       THEN <<Head(sorted)>> \o InsertAsc(Tail(sorted), x)
       ELSE <<x>> \o sorted

\* one step of the stable sort with (a, b) => b.updatedAt - a.updatedAt:
\* x goes behind every element that is not older than it
RECURSIVE InsertDesc(_, _)
InsertDesc(sorted, x) ==
  IF sorted = <<>> THEN <<x>>
  ELSE IF Head(sorted).updatedAt >= x.updatedAt
       THEN <<Head(sorted)>> \o InsertDesc(Tail(sorted), x)
       ELSE <<x>> \o sorted

RECURSIVE SortFrom(_, _)
SortFrom(rest, sorted) ==
  IF rest = <<>> THEN sorted
  ELSE SortFrom(Tail(rest), InsertDesc(sorted, Head(rest)))
SortByUpdatedDesc(sessions) == SortFrom(sessions, <<>>)

\* listAgentSessions: index.sessions.sort(...) throws a TypeError when the
\* parsed value has no sessions list
ListAgentSessions(file) ==
  LET index == ReadIndex(file)
  IN  IF index.shape # "index"
      THEN [threw |-> TRUE, val |-> <<>>]
      ELSE [threw |-> FALSE, val |-> SortByUpdatedDesc(index.sessions)]

\* getAgentSessionMeta: index.sessions.find((s) => s.id === id)
GetAgentSessionMeta(file, id) ==
  LET index == ReadIndex(file)
      idx == FindIndex(index.sessions, id)
  IN  IF index.shape # "index" THEN [threw |-> TRUE, found |-> FALSE, val |-> NoVal]
      ELSE IF idx = 0 THEN [threw |-> FALSE, found |-> FALSE, val |-> NoVal]
      ELSE [threw |-> FALSE, found |-> TRUE, val |-> index.sessions[idx]]

(* ------------------------------------------------------------------ *)
(* Inputs                                                              *)
(* ------------------------------------------------------------------ *)
Titles == {Undef, "", "T"}
ChannelIds == {"c1"}
WorkspaceIds == {Undef, "w1"}

NoUpdates == [k \in {} |-> Undef]
UpdateSet ==
  { NoUpdates,
    [title |-> "U"],
    [sdkSessionId |-> "s1", channelId |-> "c2", workspaceId |-> "w2"] }

Messages ==
  { Msg("u", <<"x", NL>>),
    Msg("a", <<BS, "n">>),
    Msg("u", <<QT, "}", SP>>) }

(* ------------------------------------------------------------------ *)
(* Collaborators (agent-workspace-manager, config-paths)               *)
(* ------------------------------------------------------------------ *)
\* getAgentWorkspace(workspaceId): the workspace, or undefined when the
\* workspace index does not hold it.  A workspace's slug is its id here.
GetAgentWorkspace(workspaceId, found) ==
  IF found THEN [found |-> TRUE, slug |-> workspaceId]
  ELSE [found |-> FALSE, slug |-> Undef]

\* getAgentSessionWorkspacePath(slug, id): the session's directory inside
\* the workspace
GetAgentSessionWorkspacePath(slug, id) == <<slug, id>>

(* ------------------------------------------------------------------ *)
(* State                                                               *)
(* ------------------------------------------------------------------ *)
\* two callers of the store that share the index file
Procs == {1, 2}
\* a caller that is not inside a call
IdleTask ==
  [pc |-> "idle", op |-> "none", id |-> UnknownId, arg |-> NoUpdates,
   index |-> ReadIndex(NoIndexFile)]

\* the two notification channels of the workspace watcher
Categories == {"capabilities", "files"}
\* a debounce timer variable that holds null
NoTimer == -1
\* A file name is the list of its parts and separators.  SEP is '/', WSEP
\* is the '\' of Windows paths.
SEP == "/"
WSEP == "\\"
\* fs.watch may call back without a file name
NoFilename == <<>>
Filenames ==
  { NoFilename,
    <<"ws", SEP, "mcp.json">>,
    <<"ws", SEP, "skills", SEP, "SKILL.md">>,
    <<"ws", SEP, "session", SEP, "file.txt">>,
    <<"ws", WSEP, "skills", WSEP, "SKILL.md">>,
    <<"ws", WSEP, "mcp.json">>,
    <<"ws", WSEP, "session", WSEP, "file.txt">> }
\* the FSWatcher objects fs.watch() hands out; 0 is null
NoWatcher == 0
WatcherIds == 1..MaxWatchers

VARIABLES
  indexFile,     \* ~/.proma/agent-sessions.json
  transcripts,   \* ~/.proma/agent-sessions/{id}.jsonl, by id
  sessionDirs,   \* the session directories that exist inside workspaces
  now,           \* the clock Date.now() reads
  nextId,        \* the next id randomUUID() returns
  nAppends,      \* lines appended so far
  ret,           \* the last call: operation, id, outcome, returned value
  appended,      \* history: the messages of the successful appends, by id
  created,       \* history: ids createAgentSession returned
  deleted,       \* history: ids for which deleteAgentSession returned
  steps,         \* calls and clock ticks so far
  \* two callers whose calls overlap
  tasks,         \* by caller: the call it is in and the index it read
  interleaved,   \* history: a call began while another had read the index
  \* the activity list of one turn (ToolActivityList)
  activities,    \* the activities prop, in arrival order
  rendered,      \* the component has rendered
  grouped,       \* the memoised groupActivities(activities)
  status,        \* the status each row of grouped shows
  \* the workspace watcher
  watcher,       \* the module's watcher variable: an FSWatcher or null
  openWatchers,  \* the FSWatchers that were created and not closed
  timers,        \* by FSWatcher: capabilitiesTimer and filesTimer of its closure
  nextWatcher,   \* the next FSWatcher fs.watch() returns
  winDestroyed,  \* win.isDestroyed()
  clock,         \* the time of the event loop, in ms
  sent,          \* history: the notifications sent to the window
  lastEvent,     \* history: by category, the time of its last change event
  runs,          \* history: by category, the number of runs of events
  events,        \* history: by category, the number of events
  stopped,       \* history: stopWorkspaceWatcher returned, no start since
  \* the context usage badge (ContextUsageBadge)
  props,         \* the props of the last render
  badge,         \* what the last render returned
  compactRequests, \* history: the number of calls of onCompact
  \* the workspace selector (WorkspaceSelector) and the main process behind it
  workspaces,    \* agentWorkspacesAtom: the list the selector shows
  currentWorkspaceId, \* currentAgentWorkspaceIdAtom
  creating,      \* the input for a new workspace is open
  editingId,     \* the workspace being renamed, or null
  deleteTargetId, \* the workspace the delete dialog is open for, or null
  pending,       \* the handlers suspended at their await
  backend,       \* the workspaces of the main process
  nextWs,        \* the next workspace id the main process hands out
  \* the MCP servers of the settings page (AgentSettings, McpServerForm)
  configFile,    \* the servers of the workspace's mcp.json
  mcpConfig,     \* the page's state mcpConfig: its copy of the servers
  viewMode,      \* the page shows the list or the form
  inflight,      \* the calls of the page and the form suspended at an await
  \* the workspace watcher, for the runs in which timers are sure to fire
  lastSeen       \* history: by path, the time of its last change event

storeVars == <<indexFile, transcripts, sessionDirs, now, nextId, nAppends, ret,
               appended, created, deleted>>
raceVars == <<tasks, interleaved>>
viewVars == <<activities, rendered, grouped, status>>
watchVars == <<watcher, openWatchers, timers, nextWatcher, winDestroyed, clock,
               sent, lastEvent, runs, events, stopped>>

badgeVars == <<props, badge, compactRequests>>
selectorVars == <<workspaces, currentWorkspaceId, creating, editingId,
                  deleteTargetId, pending, backend, nextWs>>
mcpVars == <<configFile, mcpConfig, viewMode, inflight>>
uiVars == <<badgeVars, selectorVars, mcpVars>>
liveVars == <<lastSeen>>

vars == <<storeVars, steps, raceVars, viewVars, watchVars, uiVars, liveVars>>

\* the last call.  fault is the set of file system calls that failed in it.
Ret(op, id, out, val, arg, fault) ==
  [op |-> op, id |-> id, out |-> out, val |-> val, arg |-> arg, fault |-> fault]

\* the store before its first call
InitStore ==
  /\ indexFile = NoIndexFile
  /\ transcripts = [id \in Ids |-> NoFile]
  /\ sessionDirs = {}
  /\ now = 0
  /\ nextId = 1
  /\ nAppends = 0
  /\ ret = Ret("none", UnknownId, "ok", NoVal, NoUpdates, {})
  /\ appended = [id \in Ids |-> <<>>]
  /\ created = {}
  /\ deleted = {}
  /\ steps = 0

\* no caller is inside a call
InitRace ==
  /\ tasks = [p \in Procs |-> IdleTask]
  /\ interleaved = FALSE

\* nothing was rendered
InitView ==
  /\ rendered = FALSE
  /\ grouped = <<>>
  /\ status = <<>>

\* the watcher module after it was loaded: let watcher = null
InitWatch ==
  /\ watcher = NoWatcher
  /\ openWatchers = {}
  /\ timers = [w \in WatcherIds |-> [c \in Categories |-> NoTimer]]
  /\ nextWatcher = 1
  /\ winDestroyed = FALSE
  /\ clock = 0
  /\ sent = <<>>
  /\ lastEvent = [c \in Categories |-> NoTimer]
  /\ runs = [c \in Categories |-> 0]
  /\ events = [c \in Categories |-> 0]
  /\ stopped = FALSE

(* ------------------------------------------------------------------ *)
(* The context usage badge (ContextUsageBadge.tsx)                     *)
(* ------------------------------------------------------------------ *)
\* An optional number (inputTokens?: number): <<>> is undefined, <<n>> is n.
None == <<>>
Some(n) == <<n>>
IsSome(o) == o # None
ValueOf(o) == o[1]

\* COMPACT_THRESHOLD_RATIO = 0.775, in thousandths
COMPACT_THRESHOLD_RATIO == 775
\* WARNING_RATIO = 0.80, in hundredths
WARNING_RATIO == 80

\* if (!inputTokens || inputTokens <= 0) return null, with the test on
\* undefined only
IsNoDataUndefinedOnly(inputTokens) == ~IsSome(inputTokens)

\* if (!inputTokens || inputTokens <= 0) return null
IsNoData(inputTokens) ==
  \/ ~IsSome(inputTokens)
  \/ ValueOf(inputTokens) = 0
  \/ ValueOf(inputTokens) <= 0

\* contextWindow ? Math.floor(contextWindow * COMPACT_THRESHOLD_RATIO) : undefined
\* (for the integers of this model the double product has the floor of the
\* exact product)
CompactThreshold(contextWindow) ==
  IF IsSome(contextWindow) /\ ValueOf(contextWindow) # 0
  THEN Some((ValueOf(contextWindow) * COMPACT_THRESHOLD_RATIO) \div 1000)
  ELSE None

\* usageRatio: defined when compactThreshold is neither undefined nor 0.  The
\* quotient inputTokens / compactThreshold is kept as the pair of its terms.
HasRatio(compactThreshold) ==
  IsSome(compactThreshold) /\ ValueOf(compactThreshold) # 0

\* isWarning with > in place of >=
IsWarningStrict(inputTokens, compactThreshold) ==
  /\ HasRatio(compactThreshold)
  /\ 100 * ValueOf(inputTokens) > WARNING_RATIO * ValueOf(compactThreshold)

\* isWarning = usageRatio !== undefined && usageRatio >= WARNING_RATIO
IsWarning(inputTokens, compactThreshold) ==
  /\ HasRatio(compactThreshold)
  /\ 100 * ValueOf(inputTokens) >= WARNING_RATIO * ValueOf(compactThreshold)

\* percentText: Math.round(usageRatio * 100), undefined without a ratio (the
\* button displays it only when isWarning)
Percent(inputTokens, compactThreshold) ==
  IF HasRatio(compactThreshold)
  THEN Some((200 * ValueOf(inputTokens) + ValueOf(compactThreshold))
              \div (2 * ValueOf(compactThreshold)))
  ELSE None

\* What a render returns.  shown: an element is returned (null otherwise);
\* button: the element is the button; enabled: the button is not disabled and
\* has onCompact as its click handler.
Spinner ==
  [state |-> "compacting", shown |-> TRUE, button |-> FALSE, enabled |-> FALSE,
   threshold |-> None, percent |-> None]
Nothing ==
  [state |-> "no-data", shown |-> FALSE, button |-> FALSE, enabled |-> FALSE,
   threshold |-> None, percent |-> None]
Button(p) ==
  LET compactThreshold == CompactThreshold(p.contextWindow)
      isWarning == IsWarning(p.inputTokens, compactThreshold)
  IN [state |-> IF isWarning THEN "warning" ELSE "normal",
      shown |-> TRUE,
      button |-> TRUE,
      enabled |-> isWarning /\ ~p.isProcessing,
      threshold |-> compactThreshold,
      percent |-> Percent(p.inputTokens, compactThreshold)]

\* the component with the two early returns in the other order
ContextUsageBadgeDataFirst(p) ==
  IF IsNoData(p.inputTokens) THEN Nothing
  ELSE IF p.isCompacting THEN Spinner
  ELSE Button(p)

\* the component: the spinner while compacting, nothing without data, the
\* button otherwise
ContextUsageBadge(p) ==
  IF p.isCompacting THEN Spinner
  ELSE IF IsNoData(p.inputTokens) THEN Nothing
  ELSE Button(p)

\* the props the badge is rendered with
TokenInputs ==
  {None} \cup {Some(n) : n \in (-1)..MaxTokens} \cup {Some(50000), Some(62000)}
WindowInputs ==
  {None} \cup {Some(n) : n \in 0..MaxWindow} \cup {Some(100000)}
Props ==
  [inputTokens : TokenInputs, contextWindow : WindowInputs,
   isCompacting : BOOLEAN, isProcessing : BOOLEAN]

\* the badge mounted before the first usage report of the session
InitBadge ==
  /\ props = [inputTokens |-> None, contextWindow |-> None,
              isCompacting |-> FALSE, isProcessing |-> FALSE]
  /\ badge = ContextUsageBadge(props)
  /\ compactRequests = 0

(* ------------------------------------------------------------------ *)
(* The workspace selector (WorkspaceSelector, ToolActivityItem.tsx)    *)
(* ------------------------------------------------------------------ *)
\* null for editingId and deleteTargetId
NoWorkspace == 0

\* An AgentWorkspace.  The main process is not part of the sources: it gives
\* each workspace a new id and a slug made from its name, never changes a
\* slug, and holds the workspace with slug 'default' from the start.
Workspace(id, slug, name) == [id |-> id, slug |-> slug, name |-> name]
DefaultWorkspace == Workspace(1, "default", "Default")
Slugify(name) == name
\* what the user types into the name inputs ("" stands for a blank text)
WorkspaceNames == {"", "a", "b"}

\* a handler suspended at its await, with the values its closure holds
Call(op, target, name, snapshot, current) ==
  [op |-> op, target |-> target, name |-> name, snapshot |-> snapshot,
   current |-> current]

ListIds(list) == {list[i].id : i \in 1..Len(list)}
BackendIds == {w.id : w \in backend}

\* workspaces.filter((w) => w.id !== id)
RECURSIVE FilterOut(_, _)
FilterOut(list, id) ==
  IF list = <<>> THEN <<>>
  ELSE IF Head(list).id = id THEN FilterOut(Tail(list), id)
  ELSE <<Head(list)>> \o FilterOut(Tail(list), id)

\* prev.map((w) => (w.id === updated.id ? updated : w))
MapUpdated(list, updated) ==
  [i \in 1..Len(list) |-> IF list[i].id = updated.id THEN updated ELSE list[i]]

\* canDelete without the test of the slug
CanDeleteAny(ws, list) == Len(list) > 1

\* canDelete: ws.slug !== 'default' && workspaces.length > 1
CanDelete(ws, list) == ws.slug # "default" /\ Len(list) > 1

\* the selector mounted with the list loaded from the main process
InitSelector ==
  /\ workspaces = <<DefaultWorkspace>>
  /\ currentWorkspaceId = DefaultWorkspace.id
  /\ creating = FALSE
  /\ editingId = NoWorkspace
  /\ deleteTargetId = NoWorkspace
  /\ pending = {}
  /\ backend = {DefaultWorkspace}
  /\ nextWs = 2

(* ------------------------------------------------------------------ *)
(* The MCP servers of a workspace (AgentSettings, McpServerForm)       *)
(* ------------------------------------------------------------------ *)
\* The servers map of a WorkspaceMcpConfig: by name, an McpServerEntry or
\* nothing.  An entry is its enabled flag and its command.
ServerNames == {"a", "b"}
Commands == {"c1", "c2"}
NoEntry == [present |-> FALSE, enabled |-> FALSE, command |-> ""]
Entry(enabled, command) ==
  [present |-> TRUE, enabled |-> enabled, command |-> command]
Entries == {Entry(e, c) : e \in BOOLEAN, c \in Commands}
NoServers == [n \in ServerNames |-> NoEntry]

\* { ...servers, [serverName]: entry }
WithServer(servers, serverName, entry) == [servers EXCEPT ![serverName] = entry]
\* const newServers = { ...servers }; delete newServers[serverName]
WithoutServer(servers, serverName) == [servers EXCEPT ![serverName] = NoEntry]
\* { ...entry, enabled: !entry.enabled }
Toggled(entry) == [entry EXCEPT !.enabled = ~@]

\* a call suspended at an await, with what its closure holds
McpCall(op, name, entry, servers) ==
  [op |-> op, name |-> name, entry |-> entry, servers |-> servers]

\* the page mounted for a workspace without servers, loadData has returned
InitMcp ==
  /\ configFile = NoServers
  /\ mcpConfig = NoServers
  /\ viewMode = "list"
  /\ inflight = {}

Init ==
  /\ InitStore
  /\ InitRace
  /\ activities = <<>>
  /\ InitView
  /\ InitWatch
  /\ InitBadge
  /\ InitSelector
  /\ InitMcp
  /\ lastSeen = [f \in Filenames |-> NoTimer]

\* the sessions the index holds, and whether it holds id
Sessions == ReadIndex(indexFile).sessions
InIndex(id) == \E i \in 1..Len(Sessions) : Sessions[i].id = id

\* getAgentSessionMessages(id)
GetAgentSessionMessages(id) == ReadMessages(transcripts[id])

(* ------------------------------------------------------------------ *)
(* Operations                                                          *)
(* ------------------------------------------------------------------ *)
\* time passes
Tick ==
  /\ now < MaxTime
  /\ now' = now + 1
  /\ UNCHANGED <<indexFile, transcripts, sessionDirs, nextId, nAppends, ret,
                 appended, created, deleted>>

\* title ?? default
TitleOrDefaultNullish(title) == IF title = Undef THEN DefaultTitle ELSE title

\* title || default
TitleOrDefault(title) == IF title = Undef \/ title = "" THEN DefaultTitle ELSE title

If(cond, fault) == IF cond THEN {fault} ELSE {}

\* createAgentSession(title, channelId, workspaceId)
\*   wfail:   writeFileSync of the index fails
\*   wsFound: getAgentWorkspace finds the workspace
CreateAgentSession(title, channelId, workspaceId, wfail, wsFound) ==
  LET index == ReadIndex(indexFile)
      meta == [id |-> nextId, title |-> TitleOrDefault(title),
               channelId |-> channelId, workspaceId |-> workspaceId,
               createdAt |-> now, updatedAt |-> now]
      w == WriteIndex(indexFile,
                      [index EXCEPT !.sessions = Append(@, meta)], wfail)
      ws == GetAgentWorkspace(workspaceId, wsFound)
  IN  /\ nextId <= MaxSessions
      /\ nextId' = nextId + 1
      /\ UNCHANGED <<transcripts, now, nAppends, appended, deleted>>
      /\ IF index.shape # "index" THEN
           /\ ret' = Ret("create", nextId, "typeerror", NoVal, NoUpdates, {})
           /\ UNCHANGED <<indexFile, sessionDirs, created>>
         ELSE IF w.threw THEN
           /\ ret' = Ret("create", nextId, "writefail", NoVal, NoUpdates,
                         If(wfail, "write"))
           /\ indexFile' = w.file
           /\ UNCHANGED <<sessionDirs, created>>
         ELSE
           /\ indexFile' = w.file
           /\ sessionDirs' =
                IF workspaceId # Undef /\ ws.found
                THEN sessionDirs \cup {GetAgentSessionWorkspacePath(ws.slug, nextId)}
                ELSE sessionDirs
           /\ created' = created \cup {nextId}
           /\ ret' = Ret("create", nextId, "ok", meta, NoUpdates,
                         If(wfail, "write")
                           \cup If(workspaceId # Undef /\ ~wsFound, "nows"))

\* mutant: writeFileSync in place of appendFileSync, the file is replaced
AppendFileOverwrite(file, line) == [exists |-> TRUE, raw |-> line]

\* appendFileSync(filePath, line): the file is created when it is missing
AppendFile(file, line) == [exists |-> TRUE, raw |-> file.raw \o line]

\* appendAgentMessage(id, message)
\*   afail: appendFileSync fails
AppendAgentMessage(id, message, afail) ==
  LET line == Stringify(message) \o <<NL>>
  IN  /\ nAppends < MaxAppends
      /\ UNCHANGED <<indexFile, sessionDirs, now, nextId, created, deleted>>
      /\ IF afail THEN
           /\ ret' = Ret("append", id, "appendfail", NoVal, NoUpdates, {"append"})
           /\ UNCHANGED <<transcripts, nAppends, appended>>
         ELSE
           /\ transcripts' = [transcripts EXCEPT ![id] = AppendFile(@, line)]
           /\ nAppends' = nAppends + 1
           /\ appended' = [appended EXCEPT ![id] = Append(@, message)]
           /\ ret' = Ret("append", id, "ok", NoVal, NoUpdates, {})

\* mutant: { ...existing, ...updates }, updatedAt is not refreshed
MergeNoRefresh(existing, updates, time) ==
  [k \in DOMAIN existing \cup DOMAIN updates |->
     IF k \in DOMAIN updates THEN updates[k] ELSE existing[k]]

\* { ...existing, ...updates, updatedAt: Date.now() }
Merge(existing, updates, time) ==
  [k \in DOMAIN existing \cup DOMAIN updates \cup {"updatedAt"} |->
     IF k = "updatedAt" THEN time
     ELSE IF k \in DOMAIN updates THEN updates[k]
     ELSE existing[k]]

\* updateAgentSessionMeta(id, updates)
UpdateAgentSessionMeta(id, updates, wfail) ==
  LET index == ReadIndex(indexFile)
      idx == FindIndex(index.sessions, id)
      updated == Merge(index.sessions[idx], updates, now)
      w == WriteIndex(indexFile,
                      [index EXCEPT !.sessions = [@ EXCEPT ![idx] = updated]], wfail)
  IN  /\ UNCHANGED <<transcripts, sessionDirs, now, nextId, nAppends,
                     appended, created, deleted>>
      /\ IF index.shape # "index" THEN
           /\ ret' = Ret("update", id, "typeerror", NoVal, updates, {})
           /\ UNCHANGED indexFile
         ELSE IF idx = 0 THEN
           /\ ret' = Ret("update", id, "notfound", NoVal, updates, {})
           /\ UNCHANGED indexFile
         ELSE IF w.threw THEN
           /\ ret' = Ret("update", id, "writefail", NoVal, updates, If(wfail, "write"))
           /\ indexFile' = w.file
         ELSE
           /\ indexFile' = w.file
           /\ ret' = Ret("update", id, "ok", updated, updates, If(wfail, "write"))

\* sessions.splice(idx, 1)
Splice(sessions, idx) ==
  SubSeq(sessions, 1, idx - 1) \o SubSeq(sessions, idx + 1, Len(sessions))

\* mutant: unlinkSync outside a try, its failure leaves deleteAgentSession
UnlinkTranscriptThrows(file, unlinkFails) ==
  [threw |-> file.exists /\ unlinkFails,
   file |-> IF file.exists /\ ~unlinkFails THEN NoFile ELSE file]

\* if (existsSync(filePath)) try { unlinkSync(filePath) } catch { warn }:
\* the file is gone unless unlinkSync failed; nothing is thrown
UnlinkTranscript(file, unlinkFails) ==
  [threw |-> FALSE,
   file |-> IF file.exists /\ ~unlinkFails THEN NoFile ELSE file]

\* the clean up of the session directory: the directory is removed when the
\* session had a workspace, the workspace is found and rmSync succeeds
RemoveSessionDir(dirs, removed, id, wsFound, rmFails) ==
  LET wid == Get(removed, "workspaceId")
      ws == GetAgentWorkspace(wid, wsFound)
      dir == GetAgentSessionWorkspacePath(ws.slug, id)
  IN  IF wid # Undef /\ ws.found /\ dir \in dirs /\ ~rmFails
      THEN dirs \ {dir}
      ELSE dirs

\* the clean up steps of one deleteAgentSession call that failed
CleanupFaults(file, dirs, removed, id, unlinkFails, wsFound, rmFails) ==
  LET wid == Get(removed, "workspaceId")
  IN  If(file.exists /\ unlinkFails, "unlink")
        \cup If(wid # Undef /\ ~wsFound, "nows")
        \cup If(wid # Undef /\ wsFound /\ rmFails
                  /\ GetAgentSessionWorkspacePath(wid, id) \in dirs, "rm")

\* deleteAgentSession(id)
\*   wfail: writeFileSync of the index fails    unlinkFails: unlinkSync fails
\*   wsFound: getAgentWorkspace finds the workspace    rmFails: rmSync fails
DeleteAgentSession(id, wfail, unlinkFails, wsFound, rmFails) ==
  LET index == ReadIndex(indexFile)
      idx == FindIndex(index.sessions, id)
      removed == index.sessions[idx]
      w == WriteIndex(indexFile,
                      [index EXCEPT !.sessions = Splice(@, idx)], wfail)
      u == UnlinkTranscript(transcripts[id], unlinkFails)
      cf == CleanupFaults(transcripts[id], sessionDirs, removed, id,
                          unlinkFails, wsFound, rmFails)
  IN  /\ UNCHANGED <<now, nextId, nAppends, created, appended>>
      /\ IF index.shape # "index" THEN
           /\ ret' = Ret("delete", id, "typeerror", NoVal, NoUpdates, {})
           /\ UNCHANGED <<indexFile, transcripts, sessionDirs, deleted>>
         ELSE IF idx = 0 THEN
           /\ ret' = Ret("delete", id, "notfound", NoVal, NoUpdates, {})
           /\ UNCHANGED <<indexFile, transcripts, sessionDirs, deleted>>
         ELSE IF w.threw THEN
           /\ ret' = Ret("delete", id, "writefail", NoVal, NoUpdates, If(wfail, "write"))
           /\ indexFile' = w.file
           /\ UNCHANGED <<transcripts, sessionDirs, deleted>>
         ELSE IF u.threw THEN
           \* an error that leaves the unlink step ends the call here, after
           \* the index was rewritten (the catch keeps unlinkSync's inside)
           /\ indexFile' = w.file
           /\ ret' = Ret("delete", id, "unlinkfail", NoVal, NoUpdates,
                         If(wfail, "write") \cup {"unlink"})
           /\ UNCHANGED <<transcripts, sessionDirs, deleted>>
         ELSE
           /\ indexFile' = w.file
           /\ transcripts' = [transcripts EXCEPT ![id] = u.file]
           /\ sessionDirs' = RemoveSessionDir(sessionDirs, removed, id, wsFound, rmFails)
           /\ deleted' = deleted \cup {id}
           /\ ret' = Ret("delete", id, "ok", NoVal, NoUpdates,
                         If(wfail, "write") \cup cf)

\* the process dies inside appendFileSync: the first n characters of the line
\* are on disk, the call never returns
TornAppend(id, message, n) ==
  LET line == Stringify(message) \o <<NL>>
  IN  /\ nAppends < MaxAppends
      /\ n \in 1..(Len(line) - 2)
      /\ transcripts' = [transcripts EXCEPT ![id] = AppendFile(@, SubSeq(line, 1, n))]
      /\ nAppends' = nAppends + 1
      /\ ret' = Ret("crash", id, "torn", NoVal, NoUpdates, {})
      /\ UNCHANGED <<indexFile, sessionDirs, now, nextId, appended, created, deleted>>

\* another writer replaces the index file, or makes it unreadable
IndexFileKinds == {"absent", "unreadable", "badjson", "null", "nosessions"}
ExternalIndexWrite(kind) ==
  /\ kind \in IndexFileKinds
  /\ indexFile' = IndexFile(kind, INDEX_VERSION, <<>>)
  /\ ret' = Ret("external", UnknownId, "ok", NoVal, NoUpdates, {})
  /\ UNCHANGED <<transcripts, sessionDirs, now, nextId, nAppends, appended,
                 created, deleted>>

\* the ids a caller can name: every id handed out so far, and one that never was
CallerIds == 0..(nextId - 1)

\* one more step of a run of at most n steps
Budget(n) ==
  /\ steps < n
  /\ steps' = steps + 1
  /\ UNCHANGED <<raceVars, viewVars, watchVars, uiVars, liveVars>>

\* the failures of file system calls one call can meet
NoFaults == {{}}
CreateFaults == {{}, {"write"}, {"nows"}}
AppendFaults == {{}, {"append"}}
UpdateFaults == {{}, {"write"}}
DeleteFaults == {{}, {"write"}, {"unlink"}, {"nows"}, {"rm"}, {"unlink", "rm"}}

Create(titles, channelIds, workspaceIds, faults) ==
  \E title \in titles, channelId \in channelIds, workspaceId \in workspaceIds,
     f \in faults :
    CreateAgentSession(title, channelId, workspaceId, "write" \in f, "nows" \notin f)

AppendMsg(messages, faults) ==
  \E id \in CallerIds, message \in messages, f \in faults :
    AppendAgentMessage(id, message, "append" \in f)

Update(updateSet, faults) ==
  \E id \in CallerIds, updates \in updateSet, f \in faults :
    UpdateAgentSessionMeta(id, updates, "write" \in f)

Delete(faults) ==
  \E id \in CallerIds, f \in faults :
    DeleteAgentSession(id, "write" \in f, "unlink" \in f, "nows" \notin f, "rm" \in f)

\* every file system call succeeds; the session metadata varies
Next ==
  \/ Budget(MaxSteps) /\ Tick
  \/ Budget(MaxSteps) /\ Create(Titles, ChannelIds, WorkspaceIds, NoFaults)
  \/ Budget(MaxSteps) /\ AppendMsg({Msg("u", <<"x">>)}, NoFaults)
  \/ Budget(MaxSteps) /\ Update(UpdateSet, NoFaults)
  \/ Budget(MaxSteps) /\ Delete(NoFaults)

Spec == Init /\ [][Next]_vars

\* every file system call succeeds; short runs in which sessions are created
\* with every kind of title
NextCreate ==
  \/ Budget(MaxStepsCreate) /\ Tick
  \/ Budget(MaxStepsCreate) /\ Create(Titles, ChannelIds, WorkspaceIds, NoFaults)
  \/ Budget(MaxStepsCreate) /\ AppendMsg({Msg("u", <<"x">>)}, NoFaults)
  \/ Budget(MaxStepsCreate) /\ Delete(NoFaults)

SpecCreate == Init /\ [][NextCreate]_vars

\* every file system call succeeds; the messages vary
NextLog ==
  \/ Budget(MaxStepsLog) /\ Create({Undef, ""}, {Undef}, {Undef}, NoFaults)
  \/ Budget(MaxStepsLog) /\ AppendMsg(Messages, NoFaults)
  \/ Budget(MaxStepsLog) /\ Update({[title |-> "U"]}, NoFaults)
  \/ Budget(MaxStepsLog) /\ Delete(NoFaults)

SpecLog == Init /\ [][NextLog]_vars

\* file system calls may fail
NextIO ==
  \/ Budget(MaxStepsIO) /\ Create({"T"}, {"c1"}, {"w1"}, CreateFaults)
  \/ Budget(MaxStepsIO) /\ AppendMsg({Msg("u", <<"x">>)}, AppendFaults)
  \/ Budget(MaxStepsIO) /\ Update({[title |-> "U"]}, UpdateFaults)
  \/ Budget(MaxStepsIO) /\ Delete(DeleteFaults)

SpecIO == Init /\ [][NextIO]_vars

\* the process may die while it appends a line
Crash ==
  \E id \in CallerIds, message \in Messages :
    \E n \in 1..(Len(Stringify(message)) - 1) : TornAppend(id, message, n)

NextCrash ==
  \/ Budget(MaxStepsCrash) /\ Create({"T"}, {Undef}, {Undef}, NoFaults)
  \/ Budget(MaxStepsCrash) /\ AppendMsg(Messages, NoFaults)
  \/ Budget(MaxStepsCrash) /\ Delete(NoFaults)
  \/ Budget(MaxStepsCrash) /\ Crash

SpecCrash == Init /\ [][NextCrash]_vars

\* the index file may hold anything
External == \E kind \in IndexFileKinds : ExternalIndexWrite(kind)

NextDisk ==
  \/ Budget(MaxStepsDisk) /\ Create({"T"}, {Undef}, {Undef}, NoFaults)
  \/ Budget(MaxStepsDisk) /\ Update({[title |-> "U"]}, NoFaults)
  \/ Budget(MaxStepsDisk) /\ Delete(NoFaults)
  \/ Budget(MaxStepsDisk) /\ External

SpecDisk == Init /\ [][NextDisk]_vars

(* ------------------------------------------------------------------ *)
(* Two callers that share the index file                               *)
(* ------------------------------------------------------------------ *)
\* Inside one process every exported function runs to its end before the
\* next one starts (readFileSync, writeFileSync).  Nothing locks the index
\* file, so the calls of a second process that uses the same ~/.proma can
\* fall between the readIndex and the writeIndex of a call.  A call is two
\* steps here: up to readIndex's return, and from there to the end.

\* one more step of a run of at most n steps over the store and the callers
BudgetRace(n) ==
  /\ steps < n
  /\ steps' = steps + 1
  /\ UNCHANGED <<viewVars, watchVars, uiVars, liveVars>>

\* the mutations a caller can start
RaceOps == {"create", "update", "delete"}

\* the first half of createAgentSession, updateAgentSessionMeta or
\* deleteAgentSession by caller p: readIndex, and for update and delete the
\* findIndex that throws when the id is missing (such a call mutates nothing
\* and is left to UpdateAgentSessionMeta and DeleteAgentSession).  The
\* callers never work on the same session at once.
BeginMutation(p, op, id, arg) ==
  LET index == ReadIndex(indexFile)
      meta == [id |-> nextId, title |-> TitleOrDefault(arg.title),
               channelId |-> arg.channelId, workspaceId |-> arg.workspaceId,
               createdAt |-> now, updatedAt |-> now]
      target == IF op = "create" THEN nextId ELSE id
  IN  /\ tasks[p].pc = "idle"
      /\ \A q \in Procs \ {p} : tasks[q].pc # "idle" => tasks[q].id # target
      /\ IF op = "create"
         THEN /\ nextId <= MaxSessions
              /\ nextId' = nextId + 1
         ELSE /\ FindIndex(index.sessions, id) # 0
              /\ UNCHANGED nextId
      /\ tasks' = [tasks EXCEPT ![p] =
                     [pc |-> "read", op |-> op, id |-> target,
                      arg |-> IF op = "create" THEN meta ELSE arg,
                      index |-> index]]
      /\ interleaved' = (interleaved \/ \E q \in Procs \ {p} : tasks[q].pc = "read")
      /\ UNCHANGED <<indexFile, transcripts, sessionDirs, now, nAppends, ret,
                     appended, created, deleted>>

\* the second half of the call of caller p: the index it read is changed and
\* written back whole, then the files of a deleted session are removed
EndMutation(p) ==
  LET t == tasks[p]
      index == t.index
      idx == FindIndex(index.sessions, t.id)
      updated == Merge(index.sessions[idx], t.arg, now)
      sessions ==
        CASE t.op = "create" -> Append(index.sessions, t.arg)
          [] t.op = "update" -> [index.sessions EXCEPT ![idx] = updated]
          [] OTHER -> Splice(index.sessions, idx)
      w == WriteIndex(indexFile, [index EXCEPT !.sessions = sessions], FALSE)
      ws == GetAgentWorkspace(Get(t.arg, "workspaceId"), TRUE)
  IN  /\ t.pc = "read"
      /\ tasks' = [tasks EXCEPT ![p].pc = "done"]
      /\ indexFile' = w.file
      /\ UNCHANGED <<now, nextId, nAppends, appended, interleaved>>
      /\ CASE t.op = "create" ->
                /\ sessionDirs' =
                     IF Get(t.arg, "workspaceId") # Undef
                     THEN sessionDirs \cup {GetAgentSessionWorkspacePath(ws.slug, t.id)}
                     ELSE sessionDirs
                /\ created' = created \cup {t.id}
                /\ ret' = Ret("create", t.id, "ok", t.arg, NoUpdates, {})
                /\ UNCHANGED <<transcripts, deleted>>
           [] t.op = "update" ->
                /\ ret' = Ret("update", t.id, "ok", updated, t.arg, {})
                /\ UNCHANGED <<transcripts, sessionDirs, created, deleted>>
           [] OTHER ->
                /\ transcripts' =
                     [transcripts EXCEPT ![t.id] = UnlinkTranscript(@, FALSE).file]
                /\ sessionDirs' =
                     RemoveSessionDir(sessionDirs, index.sessions[idx], t.id, TRUE, FALSE)
                /\ deleted' = deleted \cup {t.id}
                /\ ret' = Ret("delete", t.id, "ok", NoVal, NoUpdates, {})
                /\ UNCHANGED created

\* the arguments of a call of each kind
RaceArgs(op) ==
  CASE op = "create" ->
         {[title |-> "T", channelId |-> Undef, workspaceId |-> w] : w \in WorkspaceIds}
    [] op = "update" -> {[title |-> "U"]}
    [] OTHER -> {NoUpdates}

Begin ==
  \E p \in Procs, op \in RaceOps, id \in CallerIds :
    \E arg \in RaceArgs(op) : BeginMutation(p, op, id, arg)

End == \E p \in Procs : EndMutation(p)

\* sessions are created while no caller is inside a call, then the calls of
\* the two callers overlap
NextRace ==
  \/ /\ Budget(MaxStepsRace)
     /\ \A p \in Procs : tasks[p].pc = "idle"
     /\ Create({"T"}, {Undef}, WorkspaceIds, NoFaults)
  \/ BudgetRace(MaxStepsRace) /\ Begin
  \/ BudgetRace(MaxStepsRace) /\ End

SpecRace == Init /\ [][NextRace]_vars

(* ------------------------------------------------------------------ *)
(* The activity list of one turn (ToolActivityList, ActivityGroupRow)  *)
(* ------------------------------------------------------------------ *)
\* a ToolActivity: toolUseId, toolName, parentToolUseId (NoParent when not
\* set), done, isError and, while it is not done, the phase it is in.  The
\* toolUseId of an activity is its place in the arrival order.
NoParent == 0
ToolNames == {"Task", "Edit"}
Phases == {"pending", "running", "backgrounded"}
Terminal == {"completed", "error"}

ToolActivity(id, name, parentId, done, isError, phase) ==
  [toolUseId |-> id, toolName |-> name, parentToolUseId |-> parentId,
   done |-> done, isError |-> isError, phase |-> phase]

\* getActivityStatus(activity): done is set exactly when a terminal state is
\* reached; before that the activity is pending, running or backgrounded
GetActivityStatus(a) ==
  IF a.done THEN (IF a.isError THEN "error" ELSE "completed") ELSE a.phase

\* children.every((c) => c.done) and children.some((c) => c.isError)
EveryDone(children) == \A i \in 1..Len(children) : children[i].done
SomeError(children) == \E i \in 1..Len(children) : children[i].isError

\* mutant: the children are looked at before the parent's own status
DerivedStatusChildrenFirst(parent, children) ==
  LET selfStatus == GetActivityStatus(parent)
  IN  IF Len(children) > 0 /\ EveryDone(children) /\ SomeError(children)
      THEN "error"
      ELSE IF Len(children) > 0 /\ EveryDone(children) /\ parent.done
      THEN "completed"
      ELSE selfStatus

\* mutant: children.some((c) => c.done) in place of every
DerivedStatusSomeDone(parent, children) ==
  LET selfStatus == GetActivityStatus(parent)
      someDone == \E i \in 1..Len(children) : children[i].done
  IN  IF selfStatus \in Terminal THEN selfStatus
      ELSE IF Len(children) > 0 /\ someDone /\ SomeError(children) THEN "error"
      ELSE IF Len(children) > 0 /\ someDone /\ parent.done THEN "completed"
      ELSE selfStatus

\* mutant: children that all finished cleanly complete the group whether or
\* not the parent is done
DerivedStatusNoParentDone(parent, children) ==
  LET selfStatus == GetActivityStatus(parent)
  IN  IF selfStatus \in Terminal THEN selfStatus
      ELSE IF Len(children) > 0 /\ EveryDone(children)
      THEN (IF SomeError(children) THEN "error" ELSE "completed")
      ELSE selfStatus

\* derivedStatus of ActivityGroupRow
DerivedStatus(parent, children) ==
  LET selfStatus == GetActivityStatus(parent)
  IN  IF selfStatus = "completed" \/ selfStatus = "error" THEN selfStatus
      ELSE IF Len(children) > 0 /\ EveryDone(children) /\ SomeError(children)
      THEN "error"
      ELSE IF Len(children) > 0 /\ EveryDone(children) /\ parent.done
      THEN "completed"
      ELSE selfStatus

\* an item of the grouped list: a group (a Task and its children) or one
\* activity on its own (held in parent, with no children)
Group(parent, children) == [isGroup |-> TRUE, parent |-> parent, children |-> children]
Single(activity) == [isGroup |-> FALSE, parent |-> activity, children |-> <<>>]
IsActivityGroup(item) == item.isGroup

\* the place in out of the group whose parent has this toolUseId, 0 if none
GroupOf(out, parentId) ==
  IF \E g \in 1..Len(out) : out[g].isGroup /\ out[g].parent.toolUseId = parentId
  THEN CHOOSE g \in 1..Len(out) : out[g].isGroup /\ out[g].parent.toolUseId = parentId
  ELSE 0

\* mutant: a child is added to its group and kept in the top-level list too
RECURSIVE GroupFromKeepChild(_, _, _)
GroupFromKeepChild(acts, i, out) ==
  IF i > Len(acts) THEN out
  ELSE LET a == acts[i]
           g == GroupOf(out, a.parentToolUseId)
       IN  IF a.toolName = "Task"
           THEN GroupFromKeepChild(acts, i + 1, Append(out, Group(a, <<>>)))
           ELSE IF a.parentToolUseId # NoParent /\ g # 0
           THEN GroupFromKeepChild(acts, i + 1,
                  Append([out EXCEPT ![g].children = Append(@, a)], Single(a)))
           ELSE GroupFromKeepChild(acts, i + 1, Append(out, Single(a)))

\* the scan of groupActivities from place i on: a Task opens a group, an
\* activity whose parentToolUseId is the toolUseId of a group opened before
\* it joins that group, every other activity stays in the top-level list
RECURSIVE GroupFrom(_, _, _)
GroupFrom(acts, i, out) ==
  IF i > Len(acts) THEN out
  ELSE LET a == acts[i]
           g == GroupOf(out, a.parentToolUseId)
       IN  IF a.toolName = "Task"
           THEN GroupFrom(acts, i + 1, Append(out, Group(a, <<>>)))
           ELSE IF a.parentToolUseId # NoParent /\ g # 0
           THEN GroupFrom(acts, i + 1, [out EXCEPT ![g].children = Append(@, a)])
           ELSE GroupFrom(acts, i + 1, Append(out, Single(a)))

\* groupActivities(activities)
GroupActivities(acts) == GroupFrom(acts, 1, <<>>)

\* the states of a Task and of any other tool: only a Task's phase shows in
\* a group's status
TaskStates ==
  {<<FALSE, FALSE, ph>> : ph \in Phases} \cup {<<TRUE, e, "running">> : e \in BOOLEAN}
ToolStates ==
  {<<FALSE, FALSE, "running">>} \cup {<<TRUE, e, "running">> : e \in BOOLEAN}

\* the activities that can arrive as number i of n: a Task (the hierarchy has
\* two levels, a Task has no parent), or another tool with any
\* parentToolUseId, set or not, of a Task or not, arrived or not
ActivitiesAt(i, n) ==
  {ToolActivity(i, "Task", NoParent, st[1], st[2], st[3]) : st \in TaskStates}
    \cup {ToolActivity(i, "Edit", par, st[1], st[2], st[3]) :
            par \in 0..n, st \in ToolStates}

\* the status a row shows (StatusIcon of ActivityGroupRow or ActivityRow)
RowStatus(item) ==
  IF IsActivityGroup(item)
  THEN DerivedStatus(item.parent, item.children)
  ELSE GetActivityStatus(item.parent)

\* one more activity is in the activities prop (a live or replayed turn) and
\* ToolActivityList renders: the list is grouped again, every row gets its status
Render(a) ==
  LET acts == Append(activities, a)
  IN  /\ Len(activities) < MaxActivities
      /\ activities' = acts
      /\ rendered' = TRUE
      /\ grouped' = GroupActivities(acts)
      /\ status' = [i \in 1..Len(GroupActivities(acts)) |->
                      RowStatus(GroupActivities(acts)[i])]
      /\ UNCHANGED <<storeVars, steps, raceVars, watchVars, uiVars,
                     liveVars>>

\* the activities arrive one by one, each in any state
NextView ==
  \E a \in ActivitiesAt(Len(activities) + 1, MaxActivities) : Render(a)

SpecView == Init /\ [][NextView]_vars

(* ------------------------------------------------------------------ *)
(* The workspace watcher (startWorkspaceWatcher, stopWorkspaceWatcher) *)
(* ------------------------------------------------------------------ *)
\* filename.endsWith(suffix) and filename.includes(part)
EndsWith(name, suffix) ==
  /\ Len(name) >= Len(suffix)
  /\ SubSeq(name, Len(name) - Len(suffix) + 1, Len(name)) = suffix
Includes(name, part) ==
  \E i \in 1..(Len(name) - Len(part) + 1) :
    SubSeq(name, i, i + Len(part) - 1) = part

\* isCapabilitiesChange
IsCapabilitiesChange(filename) ==
  \/ EndsWith(filename, <<SEP, "mcp.json">>)
  \/ EndsWith(filename, <<WSEP, "mcp.json">>)
  \/ Includes(filename, <<SEP, "skills", SEP>>)
  \/ Includes(filename, <<WSEP, "skills", SEP>>)

\* the channel a change of this file is reported on
Category(filename) ==
  IF IsCapabilitiesChange(filename) THEN "capabilities" ELSE "files"
Other(c) == IF c = "capabilities" THEN "files" ELSE "capabilities"

\* the callback ignores the event: if (!filename || win.isDestroyed()) return
Ignored(filename, destroyed) == filename = NoFilename \/ destroyed

\* mutant: a timer that is pending is left to run (the first event of a run
\* sets the time of the notification)
DebounceLeading(timer) == IF timer # NoTimer THEN timer ELSE DEBOUNCE_MS

\* if (timer) clearTimeout(timer); timer = setTimeout(..., DEBOUNCE_MS):
\* the time the new timer has left
Debounce(timer) == DEBOUNCE_MS

\* mutant: one timer variable for both channels, an event of one channel
\* clears the pending timer of the other
OnChangeOneTimer(t, filename, destroyed) ==
  IF Ignored(filename, destroyed) THEN t
  ELSE [c \in Categories |->
          IF c = Category(filename) THEN Debounce(t[c]) ELSE NoTimer]

\* the callback of fs.watch in the closure whose timers are t
OnChange(t, filename, destroyed) ==
  IF Ignored(filename, destroyed) THEN t
  ELSE [t EXCEPT ![Category(filename)] = Debounce(@)]

\* mutant: the timer sends without asking win.isDestroyed()
DeliverUnchecked(log, destroyed, c, w, t, after) ==
  Append(log, [category |-> c, by |-> w, at |-> t, after |-> after])

\* the body of a debounce timer of FSWatcher w's closure:
\* if (!win.isDestroyed()) win.webContents.send(channel).  The log keeps
\* the time of the notification and of the last event of its category.
Deliver(log, destroyed, c, w, t, after) ==
  IF destroyed THEN log
  ELSE Append(log, [category |-> c, by |-> w, at |-> t, after |-> after])

\* a timer is due.  The event loop runs the timers that are due before it
\* polls for file system events.
Due == \E w \in WatcherIds, c \in Categories : timers[w][c] = 0

\* one more step of a run of at most n steps of the watcher
BudgetWatch(n) ==
  /\ steps < n
  /\ steps' = steps + 1
  /\ UNCHANGED <<storeVars, raceVars, viewVars, activities, uiVars, liveVars>>

\* startWorkspaceWatcher(win)
\*   dirExists:   existsSync(watchDir)     watchThrows: fs.watch throws
StartWorkspaceWatcher(dirExists, watchThrows) ==
  /\ UNCHANGED <<timers, winDestroyed, clock, sent, lastEvent, runs, events>>
  /\ IF ~dirExists \/ watchThrows
     THEN UNCHANGED <<watcher, openWatchers, nextWatcher, stopped>>
     ELSE /\ nextWatcher <= MaxWatchers
          /\ watcher' = nextWatcher
          /\ openWatchers' = openWatchers \cup {nextWatcher}
          /\ nextWatcher' = nextWatcher + 1
          /\ stopped' = FALSE

\* stopWorkspaceWatcher()
StopWorkspaceWatcher ==
  /\ UNCHANGED <<timers, nextWatcher, winDestroyed, clock, sent, lastEvent,
               runs, events>>
  /\ stopped' = TRUE
  /\ IF watcher # NoWatcher
     THEN /\ openWatchers' = openWatchers \ {watcher}
          /\ watcher' = NoWatcher
     ELSE UNCHANGED <<watcher, openWatchers>>

\* a file below the watched directory changes: every open FSWatcher calls
\* its callback.  lastEvent, runs and events follow the events that set a
\* timer; a
\* run ends when no event of its category came for DEBOUNCE_MS.
FsChange(filename) ==
  LET c == Category(filename)
      counted == ~Ignored(filename, winDestroyed)
      newRun == lastEvent[c] = NoTimer \/ clock - lastEvent[c] >= DEBOUNCE_MS
  IN  /\ openWatchers # {}
      /\ ~Due
      /\ timers' = [w \in WatcherIds |->
                      IF w \in openWatchers
                      THEN OnChange(timers[w], filename, winDestroyed)
                      ELSE timers[w]]
      /\ lastEvent' = IF counted THEN [lastEvent EXCEPT ![c] = clock] ELSE lastEvent
      /\ runs' = IF counted /\ newRun THEN [runs EXCEPT ![c] = @ + 1] ELSE runs
      /\ events' = IF counted THEN [events EXCEPT ![c] = @ + 1] ELSE events
      /\ UNCHANGED <<watcher, openWatchers, nextWatcher, winDestroyed, clock,
                     sent, stopped>>

\* the debounce timer of channel c in the closure of FSWatcher w fires
TimerFires(w, c) ==
  /\ timers[w][c] = 0
  /\ sent' = Deliver(sent, winDestroyed, c, w, clock, lastEvent[c])
  /\ timers' = [timers EXCEPT ![w][c] = NoTimer]
  /\ UNCHANGED <<watcher, openWatchers, nextWatcher, winDestroyed, clock,
                 lastEvent, runs, events, stopped>>

\* time passes, up to the next timer that is due
Leaps == {250, 500}
Advance(d) ==
  /\ clock + d <= MaxClock
  /\ \A w \in WatcherIds, c \in Categories :
       timers[w][c] = NoTimer \/ timers[w][c] >= d
  /\ clock' = clock + d
  /\ timers' = [w \in WatcherIds |-> [c \in Categories |->
                  IF timers[w][c] = NoTimer THEN NoTimer ELSE timers[w][c] - d]]
  /\ UNCHANGED <<watcher, openWatchers, nextWatcher, winDestroyed, sent,
                 lastEvent, runs, events, stopped>>

\* the window is closed
DestroyWindow ==
  /\ ~winDestroyed
  /\ winDestroyed' = TRUE
  /\ UNCHANGED <<watcher, openWatchers, timers, nextWatcher, clock, sent,
                 lastEvent, runs, events, stopped>>

Start == \E dirExists, watchThrows \in BOOLEAN :
           StartWorkspaceWatcher(dirExists, watchThrows)
Change == \E filename \in Filenames : FsChange(filename)
Fire == \E w \in WatcherIds, c \in Categories : TimerFires(w, c)
Pass == \E d \in Leaps : Advance(d)

\* one watcher that is started once and runs, the window stays open
NextDebounce ==
  \/ BudgetWatch(MaxStepsDebounce) /\ watcher = NoWatcher
       /\ StartWorkspaceWatcher(TRUE, FALSE)
  \/ BudgetWatch(MaxStepsDebounce) /\ Change
  \/ BudgetWatch(MaxStepsDebounce) /\ Fire
  \/ BudgetWatch(MaxStepsDebounce) /\ Pass

SpecDebounce == Init /\ [][NextDebounce]_vars

\* any sequence of start and stop calls, the window may be closed
NextWatch ==
  \/ BudgetWatch(MaxStepsWatch) /\ Start
  \/ BudgetWatch(MaxStepsWatch) /\ StopWorkspaceWatcher
  \/ BudgetWatch(MaxStepsWatch) /\ Change
  \/ BudgetWatch(MaxStepsWatch) /\ Fire
  \/ BudgetWatch(MaxStepsWatch) /\ Pass
  \/ BudgetWatch(MaxStepsWatch) /\ DestroyWindow

SpecWatch == Init /\ [][NextWatch]_vars

\* One watcher started once, the window stays open, and the event loop keeps
\* running: time passes and a timer that is due fires.  Change events are
\* finitely many and leave a debounce window before the end of the run.
BudgetLive(n) ==
  /\ steps < n
  /\ steps' = steps + 1
  /\ UNCHANGED <<storeVars, raceVars, viewVars, uiVars>>
EventLoop == UNCHANGED <<storeVars, steps, raceVars, viewVars, uiVars, liveVars>>

StartLive ==
  /\ BudgetLive(MaxStepsLive)
  /\ watcher = NoWatcher
  /\ StartWorkspaceWatcher(TRUE, FALSE)
  /\ UNCHANGED liveVars
ChangeLive ==
  /\ BudgetLive(MaxStepsLive)
  /\ clock + DEBOUNCE_MS <= MaxClock
  /\ \E filename \in Filenames :
       /\ FsChange(filename)
       /\ lastSeen' = IF Ignored(filename, winDestroyed) THEN lastSeen
                      ELSE [lastSeen EXCEPT ![filename] = clock]
FireLive == EventLoop /\ Fire
PassLive == EventLoop /\ Pass

NextLive == StartLive \/ ChangeLive \/ FireLive \/ PassLive

SpecLive ==
  Init /\ [][NextLive]_vars /\ WF_vars(FireLive) /\ WF_vars(PassLive)

(* ------------------------------------------------------------------ *)
(* The context usage badge: renders and clicks                         *)
(* ------------------------------------------------------------------ *)
\* the parent renders the badge with new props
RenderBadge(p) ==
  /\ props' = p
  /\ badge' = ContextUsageBadge(p)
  /\ UNCHANGED <<compactRequests, storeVars, steps, raceVars, viewVars,
                 watchVars, selectorVars, mcpVars, liveVars>>

\* a click on what is shown: onClick is onCompact when the button is enabled
\* and undefined otherwise; a disabled button, the spinner and null take no click
ClickBadge ==
  /\ compactRequests < MaxClicks
  /\ badge.shown
  /\ compactRequests' =
       IF badge.button /\ badge.enabled THEN compactRequests + 1
       ELSE compactRequests
  /\ UNCHANGED <<props, badge, storeVars, steps, raceVars, viewVars, watchVars,
                 selectorVars, mcpVars, liveVars>>

NextBadge ==
  \/ \E p \in Props : RenderBadge(p)
  \/ ClickBadge

SpecBadge == Init /\ [][NextBadge]_vars

(* ------------------------------------------------------------------ *)
(* The workspace selector: handlers                                    *)
(* ------------------------------------------------------------------ *)
\* one more step of a run of at most n steps of the selector
BudgetSelector(n) ==
  /\ steps < n
  /\ steps' = steps + 1
  /\ UNCHANGED <<storeVars, raceVars, viewVars, watchVars, badgeVars, mcpVars,
                 liveVars>>

\* handleSelect(workspace): nothing while a rename is open
HandleSelect(i) ==
  /\ i \in 1..Len(workspaces)
  /\ editingId = NoWorkspace
  /\ currentWorkspaceId' = workspaces[i].id
  /\ UNCHANGED <<workspaces, creating, editingId, deleteTargetId, pending,
                 backend, nextWs>>

\* handleStartCreate
HandleStartCreate ==
  /\ ~creating
  /\ creating' = TRUE
  /\ UNCHANGED <<workspaces, currentWorkspaceId, editingId, deleteTargetId,
                 pending, backend, nextWs>>

\* handleCreate up to its await: a blank name closes the input
HandleCreate(newName) ==
  /\ creating
  /\ IF newName = ""
     THEN /\ creating' = FALSE
          /\ UNCHANGED pending
     ELSE /\ Cardinality(pending) < MaxPending
          /\ pending' = pending \cup
                          {Call("create", NoWorkspace, newName, <<>>, NoWorkspace)}
          /\ UNCHANGED creating
  /\ UNCHANGED <<workspaces, currentWorkspaceId, editingId, deleteTargetId,
                 backend, nextWs>>

\* handleCreate after its await: createAgentWorkspace has answered
CreateSettled(call, throws) ==
  /\ call \in pending /\ call.op = "create"
  /\ pending' = pending \ {call}
  /\ IF throws
     THEN UNCHANGED <<workspaces, currentWorkspaceId, creating, backend, nextWs>>
     ELSE /\ nextWs <= MaxWorkspaces
          /\ LET workspace == Workspace(nextWs, Slugify(call.name), call.name)
             IN /\ backend' = backend \cup {workspace}
                /\ workspaces' = <<workspace>> \o workspaces
                /\ currentWorkspaceId' = workspace.id
          /\ nextWs' = nextWs + 1
          /\ creating' = FALSE
  /\ UNCHANGED <<editingId, deleteTargetId>>

\* handleStartRename(ws)
HandleStartRename(i) ==
  /\ i \in 1..Len(workspaces)
  /\ editingId' = workspaces[i].id
  /\ UNCHANGED <<workspaces, currentWorkspaceId, creating, deleteTargetId,
                 pending, backend, nextWs>>

\* handleRename up to its await: a blank name closes the input
HandleRename(editName) ==
  /\ editingId # NoWorkspace
  /\ IF editName = ""
     THEN /\ editingId' = NoWorkspace
          /\ UNCHANGED pending
     ELSE /\ Cardinality(pending) < MaxPending
          /\ pending' = pending \cup
                          {Call("rename", editingId, editName, <<>>, NoWorkspace)}
          /\ UNCHANGED editingId
  /\ UNCHANGED <<workspaces, currentWorkspaceId, creating, deleteTargetId,
                 backend, nextWs>>

\* handleRename after its await: updateAgentWorkspace has answered (it throws
\* for a workspace the main process does not hold)
RenameSettled(call, throws) ==
  /\ call \in pending /\ call.op = "rename"
  /\ pending' = pending \ {call}
  /\ IF throws \/ call.target \notin BackendIds
     THEN UNCHANGED <<workspaces, backend>>
     ELSE LET old == CHOOSE w \in backend : w.id = call.target
              updated == Workspace(old.id, old.slug, call.name)
          IN /\ backend' = (backend \ {old}) \cup {updated}
             /\ workspaces' = MapUpdated(workspaces, updated)
  /\ editingId' = NoWorkspace
  /\ UNCHANGED <<currentWorkspaceId, creating, deleteTargetId, nextWs>>

\* the delete item of the context menu, rendered only if canDelete(ws)
OpenDeleteDialog(i) ==
  /\ i \in 1..Len(workspaces)
  /\ deleteTargetId = NoWorkspace
  /\ CanDelete(workspaces[i], workspaces)
  /\ deleteTargetId' = workspaces[i].id
  /\ UNCHANGED <<workspaces, currentWorkspaceId, creating, editingId, pending,
                 backend, nextWs>>

\* the dialog is dismissed: onOpenChange(false)
CancelDelete ==
  /\ deleteTargetId # NoWorkspace
  /\ deleteTargetId' = NoWorkspace
  /\ UNCHANGED <<workspaces, currentWorkspaceId, creating, editingId, pending,
                 backend, nextWs>>

\* handleConfirmDelete up to its await.  The closure holds deleteTargetId,
\* workspaces and currentWorkspaceId of the render the click was made in; the
\* click on the dialog's action also closes the dialog.
HandleConfirmDelete ==
  /\ deleteTargetId # NoWorkspace
  /\ Cardinality(pending) < MaxPending
  /\ pending' = pending \cup
                  {Call("delete", deleteTargetId, "", workspaces,
                        currentWorkspaceId)}
  /\ deleteTargetId' = NoWorkspace
  /\ UNCHANGED <<workspaces, currentWorkspaceId, creating, editingId, backend,
                 nextWs>>

\* handleConfirmDelete after its await: deleteAgentWorkspace has answered (it
\* throws for a workspace the main process does not hold)
DeleteSettled(call, throws) ==
  /\ call \in pending /\ call.op = "delete"
  /\ pending' = pending \ {call}
  /\ IF throws \/ call.target \notin BackendIds
     THEN UNCHANGED <<workspaces, currentWorkspaceId, backend>>
     ELSE LET remaining == FilterOut(call.snapshot, call.target)
          IN /\ backend' = {w \in backend : w.id # call.target}
             /\ workspaces' = remaining
             /\ currentWorkspaceId' =
                  IF call.target = call.current /\ Len(remaining) > 0
                  THEN remaining[1].id
                  ELSE currentWorkspaceId
  /\ deleteTargetId' = NoWorkspace
  /\ UNCHANGED <<creating, editingId, nextWs>>

NextSelector ==
  \/ BudgetSelector(MaxStepsSelector)
       /\ \E i \in 1..MaxWorkspaces : HandleSelect(i)
  \/ BudgetSelector(MaxStepsSelector) /\ HandleStartCreate
  \/ BudgetSelector(MaxStepsSelector)
       /\ \E newName \in WorkspaceNames : HandleCreate(newName)
  \/ BudgetSelector(MaxStepsSelector)
       /\ \E call \in pending, throws \in BOOLEAN : CreateSettled(call, throws)
  \/ BudgetSelector(MaxStepsSelector)
       /\ \E i \in 1..MaxWorkspaces : HandleStartRename(i)
  \/ BudgetSelector(MaxStepsSelector)
       /\ \E editName \in WorkspaceNames : HandleRename(editName)
  \/ BudgetSelector(MaxStepsSelector)
       /\ \E call \in pending, throws \in BOOLEAN : RenameSettled(call, throws)
  \/ BudgetSelector(MaxStepsSelector)
       /\ \E i \in 1..MaxWorkspaces : OpenDeleteDialog(i)
  \/ BudgetSelector(MaxStepsSelector) /\ CancelDelete
  \/ BudgetSelector(MaxStepsSelector) /\ HandleConfirmDelete
  \/ BudgetSelector(MaxStepsSelector)
       /\ \E call \in pending, throws \in BOOLEAN : DeleteSettled(call, throws)

SpecSelector == Init /\ [][NextSelector]_vars

(* ------------------------------------------------------------------ *)
(* The MCP servers of a workspace: handlers                            *)
(* ------------------------------------------------------------------ *)
\* one more step of a run of at most n steps of the settings page
BudgetMcp(n) ==
  /\ steps < n
  /\ steps' = steps + 1
  /\ UNCHANGED <<storeVars, raceVars, viewVars, watchVars, badgeVars,
                 selectorVars, liveVars>>

\* loadData after its await: setMcpConfig(config)
LoadSettled(call) ==
  /\ call \in inflight /\ call.op = "load"
  /\ mcpConfig' = call.servers
  /\ inflight' = inflight \ {call}
  /\ UNCHANGED <<configFile, viewMode>>

\* handleToggle(serverName) up to its await: the new document is the page's
\* copy with the entry toggled
HandleToggle(serverName) ==
  /\ viewMode = "list"
  /\ mcpConfig[serverName].present
  /\ Cardinality(inflight) < MaxInflight
  /\ inflight' = inflight \cup
       {McpCall("save", serverName, NoEntry,
                WithServer(mcpConfig, serverName, Toggled(mcpConfig[serverName])))}
  /\ UNCHANGED <<configFile, mcpConfig, viewMode>>

\* handleDelete(serverName) up to its await, the user has confirmed: the new
\* document is the page's copy without the entry
HandleDelete(serverName) ==
  /\ viewMode = "list"
  /\ mcpConfig[serverName].present
  /\ Cardinality(inflight) < MaxInflight
  /\ inflight' = inflight \cup
       {McpCall("save", serverName, NoEntry, WithoutServer(mcpConfig, serverName))}
  /\ UNCHANGED <<configFile, mcpConfig, viewMode>>

\* handleToggle and handleDelete after their await: saveWorkspaceMcpConfig
\* has written the document, setMcpConfig(newConfig)
SaveSettled(call, throws) ==
  /\ call \in inflight /\ call.op = "save"
  /\ inflight' = inflight \ {call}
  /\ IF throws THEN UNCHANGED <<configFile, mcpConfig>>
     ELSE /\ configFile' = call.servers
          /\ mcpConfig' = call.servers
  /\ UNCHANGED viewMode

\* the buttons that open the form, and handleFormCancel
OpenForm ==
  /\ viewMode = "list"
  /\ viewMode' = "form"
  /\ UNCHANGED <<configFile, mcpConfig, inflight>>
HandleFormCancel ==
  /\ viewMode = "form"
  /\ viewMode' = "list"
  /\ UNCHANGED <<configFile, mcpConfig, inflight>>

\* handleSubmit up to its second await: the form has read the document
\* (a blank name or command returns at once; saving disables the button)
HandleSubmit(name, entry) ==
  /\ viewMode = "form"
  /\ name # "" /\ entry.command # ""
  /\ ~\E c \in inflight : c.op = "submit"
  /\ Cardinality(inflight) < MaxInflight
  /\ inflight' = inflight \cup {McpCall("submit", name, entry, configFile)}
  /\ UNCHANGED <<configFile, mcpConfig, viewMode>>

\* handleSubmit after its second await: the document read, with the entry, is
\* written; onSaved is handleFormSaved, which shows the list and calls loadData
SubmitSettled(call, throws) ==
  /\ call \in inflight /\ call.op = "submit"
  /\ IF throws
     THEN /\ inflight' = inflight \ {call}
          /\ UNCHANGED <<configFile, viewMode>>
     ELSE /\ configFile' = WithServer(call.servers, call.name, call.entry)
          /\ viewMode' = "list"
          /\ inflight' = (inflight \ {call}) \cup
                           {McpCall("load", "", NoEntry, configFile')}
  /\ UNCHANGED mcpConfig

\* the agent of the configuration session edits mcp.json
AgentWrite(name, entry) ==
  /\ configFile' = WithServer(configFile, name, entry)
  /\ UNCHANGED <<mcpConfig, viewMode, inflight>>

NextMcp ==
  \/ BudgetMcp(MaxStepsMcp) /\ \E call \in inflight : LoadSettled(call)
  \/ BudgetMcp(MaxStepsMcp) /\ \E n \in ServerNames : HandleToggle(n)
  \/ BudgetMcp(MaxStepsMcp) /\ \E n \in ServerNames : HandleDelete(n)
  \/ BudgetMcp(MaxStepsMcp)
       /\ \E call \in inflight, throws \in BOOLEAN : SaveSettled(call, throws)
  \/ BudgetMcp(MaxStepsMcp) /\ OpenForm
  \/ BudgetMcp(MaxStepsMcp) /\ HandleFormCancel
  \/ BudgetMcp(MaxStepsMcp)
       /\ \E n \in ServerNames \cup {""}, e \in Entries \cup {Entry(TRUE, "")} :
            HandleSubmit(n, e)
  \/ BudgetMcp(MaxStepsMcp)
       /\ \E call \in inflight, throws \in BOOLEAN : SubmitSettled(call, throws)
  \/ BudgetMcp(MaxStepsMcp)
       /\ \E n \in ServerNames, e \in Entries : AgentWrite(n, e)

SpecMcp == Init /\ [][NextMcp]_vars

(* ------------------------------------------------------------------ *)
(* Properties                                                          *)
(* ------------------------------------------------------------------ *)
IsPrefix(a, b) == Len(a) <= Len(b) /\ \A i \in 1..Len(a) : a[i] = b[i]

\* C1: for a session that was not deleted, getMessages returns exactly the
\* messages of the successful appendMessage calls, each once, in call order.
C1_AppendReadRoundTrip ==
  \A id \in Ids :
    id \notin deleted => GetAgentSessionMessages(id) = appended[id]

\* C1 witness: two different messages were appended to one session, one of
\* them with a line break in its text, and read back in that order
C1_Witness ==
  \E id \in Ids :
    /\ id \notin deleted
    /\ Len(appended[id]) = 2
    /\ appended[id][1] # appended[id][2]
    /\ \E j \in 1..Len(appended[id][1].content) : appended[id][1].content[j] = NL
    /\ GetAgentSessionMessages(id) = appended[id]

\* C5: a step that is not a successful deleteSession(id) leaves the messages
\* getMessages(id) returned before as a prefix of what it returns after.
C5_AppendOnly ==
  [][\A id \in Ids :
       id \notin (deleted' \ deleted) =>
         IsPrefix(ReadMessages(transcripts[id]), ReadMessages(transcripts'[id]))]_vars

\* C5 witness: updateSessionMeta ran on a session that has two messages while
\* another session had been deleted
C5_Witness ==
  /\ ret.op = "update"
  /\ ret.out = "ok"
  /\ Len(GetAgentSessionMessages(ret.id)) = 2
  /\ deleted # {}

\* the sessions created and not deleted
Live == created \ deleted

\* C2: listSessions returns exactly the sessions created and not deleted,
\* each once, most recently updated first.
C2_ListSessions ==
  LET l == ListAgentSessions(indexFile)
  IN  /\ ~l.threw
      /\ {l.val[i].id : i \in 1..Len(l.val)} = Live
      /\ Len(l.val) = Cardinality(Live)
      /\ \A i, j \in 1..Len(l.val) :
           i < j => l.val[i].updatedAt >= l.val[j].updatedAt

\* C2 witness: after a create, an update and a delete the list holds two
\* sessions and the one created later comes first
C2_Witness ==
  LET l == ListAgentSessions(indexFile)
  IN  /\ Len(l.val) = 2
      /\ l.val[1].updatedAt > l.val[2].updatedAt
      /\ l.val[1].id # Sessions[1].id
      /\ deleted # {}

\* the fields of a session record
MetaKeys ==
  {"id", "title", "channelId", "sdkSessionId", "workspaceId", "createdAt", "updatedAt"}

\* the step is an updateAgentSessionMeta call that returned a record
UpdateReturned == ret'.op = "update" /\ ret'.out = "ok" /\ now' = now

\* C4: updateSessionMeta on a known id stores and returns the record with the
\* named fields replaced, the other fields kept and updatedAt set to the
\* current time, not earlier than before; other sessions and all transcripts
\* are unchanged.
C4_UpdateMerges ==
  [][UpdateReturned =>
       LET id == ret'.id
           u == ret'.arg
           r == ret'.val
           before == GetAgentSessionMeta(indexFile, id)
           after == GetAgentSessionMeta(indexFile', id)
       IN  /\ before.found /\ after.found
           /\ \A k \in DOMAIN u : Get(after.val, k) = u[k] /\ Get(r, k) = u[k]
           /\ \A k \in MetaKeys \ (DOMAIN u \cup {"updatedAt"}) :
                /\ Get(after.val, k) = Get(before.val, k)
                /\ Get(r, k) = Get(before.val, k)
           /\ after.val.updatedAt = now /\ r.updatedAt = now
           /\ now >= before.val.updatedAt
           /\ Len(ReadIndex(indexFile').sessions) = Len(ReadIndex(indexFile).sessions)
           /\ \A j \in Ids \ {id} :
                GetAgentSessionMeta(indexFile', j) = GetAgentSessionMeta(indexFile, j)
           /\ transcripts' = transcripts]_vars

\* C4 witness: an update that names the workspace returned a record with a
\* later updatedAt, with another session in the index and a transcript on disk
C4_Witness ==
  /\ ret.op = "update"
  /\ ret.out = "ok"
  /\ "workspaceId" \in DOMAIN ret.arg
  /\ ret.val.updatedAt > ret.val.createdAt
  /\ ret.val.title # DefaultTitle
  /\ Len(Sessions) = 2
  /\ \E id \in Ids : transcripts[id].exists

\* the ids listSessions returns
Listed == LET l == ListAgentSessions(indexFile)
          IN  {l.val[i].id : i \in 1..Len(l.val)}

\* C3: when deleteSession(id) has returned, id is not in listSessions(),
\* getSessionMeta(id) is absent and getMessages(id) is empty.  (Stated for
\* the state the call returns in, the first of the later reads.)
C3_DeleteClears ==
  (ret.op = "delete" /\ ret.out = "ok") =>
    /\ ret.id \notin Listed
    /\ ~GetAgentSessionMeta(indexFile, ret.id).found
    /\ GetAgentSessionMessages(ret.id) = <<>>

\* C6: a call in which the index write or the append failed raised an error.
C6_WriteFailureRaises ==
  (ret.fault \cap {"write", "append"} # {}) =>
    ret.out \in {"writefail", "appendfail"}

\* C6 witness: the index write failed inside deleteSession of a session that
\* is in the index, and the call raised the write error
C6_Witness ==
  /\ ret.op = "delete"
  /\ "write" \in ret.fault
  /\ ret.out = "writefail"
  /\ InIndex(ret.id)

\* C7: updateSessionMeta and deleteSession with an id that is not in the
\* index raise the not-found error, not the write error, and change neither
\* the index nor a transcript nor a session directory.
C7_NotFound ==
  [][(ret'.op \in {"update", "delete"} /\ now' = now /\ ~InIndex(ret'.id)) =>
       /\ ret'.out = "notfound"
       /\ ret'.out # "writefail"
       /\ UNCHANGED <<indexFile, transcripts, sessionDirs>>]_vars

\* C7 witness: deleteSession of an id that is not in the index raised
\* not-found while the index, a transcript of that id and a session directory
\* exist
C7_Witness ==
  /\ ret.op = "delete"
  /\ ret.out = "notfound"
  /\ Len(Sessions) >= 1
  /\ transcripts[ret.id].exists
  /\ sessionDirs # {}

\* the text of fully written lines
RECURSIVE FullText(_)
FullText(msgs) ==
  IF msgs = <<>> THEN <<>>
  ELSE Stringify(Head(msgs)) \o <<NL>> \o FullText(Tail(msgs))

\* the transcript of id is its fully written messages and a torn last line
TornLast(id) ==
  /\ ret.op = "crash" /\ ret.id = id
  /\ IsPrefix(FullText(appended[id]), transcripts[id].raw)
  /\ Len(transcripts[id].raw) > Len(FullText(appended[id]))

\* C8: listSessions does not throw whatever the index file holds, and returns
\* the empty sequence when the file is absent or unreadable.
C8_ListNeverThrows ==
  LET l == ListAgentSessions(indexFile)
  IN  /\ ~l.threw
      /\ indexFile.kind \in {"absent", "unreadable"} => l.val = <<>>

\* C9: with a torn last line after k fully written messages, getMessages
\* returns those k messages.
C9_TornLineDiscarded ==
  \A id \in Ids : TornLast(id) => GetAgentSessionMessages(id) = appended[id]

Reflected(t) ==
  CASE t.op = "create" -> InIndex(t.id)
    [] t.op = "update" ->
         /\ InIndex(t.id)
         /\ \A i \in 1..Len(Sessions) :
              Sessions[i].id = t.id =>
                \A k \in DOMAIN t.arg : Get(Sessions[i], k) = t.arg[k]
    [] t.op = "delete" -> ~InIndex(t.id)
    [] OTHER -> TRUE

GroupRows == {i \in 1..Len(grouped) : IsActivityGroup(grouped[i])}
ParentStatus(i) == GetActivityStatus(grouped[i].parent)
AllChildrenDone(i) ==
  /\ Len(grouped[i].children) > 0
  /\ \A j \in 1..Len(grouped[i].children) : grouped[i].children[j].done
AnyChildError(i) ==
  \E j \in 1..Len(grouped[i].children) : grouped[i].children[j].isError

C13_ParentAuthoritative ==
  rendered =>
    \A i \in GroupRows :
      ParentStatus(i) \in Terminal => status[i] = ParentStatus(i)

\* a parent in error with children that all finished cleanly, shown as error
C13_Witness ==
  /\ rendered
  /\ \E i \in GroupRows :
       /\ ParentStatus(i) = "error"
       /\ AllChildrenDone(i)
       /\ ~AnyChildError(i)
       /\ status[i] = "error"

\* C14: rule 3.  A group whose parent is not terminal and that has no
\* children, or a child that is not done, shows the parent's own status; so
\* a group shows completed or error only if its parent is terminal or all of
\* its children (at least one) are done.
C14_ParentStatusOtherwise ==
  rendered =>
    \A i \in GroupRows :
      /\ (ParentStatus(i) \notin Terminal /\ ~AllChildrenDone(i))
           => status[i] = ParentStatus(i)
      /\ status[i] \in Terminal
           => (ParentStatus(i) \in Terminal \/ AllChildrenDone(i))

\* a backgrounded parent with a failed child and a child still running
C14_Witness ==
  /\ rendered
  /\ \E i \in GroupRows :
       /\ ParentStatus(i) = "backgrounded"
       /\ Len(grouped[i].children) = 2
       /\ AnyChildError(i)
       /\ ~AllChildrenDone(i)
       /\ status[i] = "backgrounded"

\* the activities of the rendered list, row by row, children after their parent
RECURSIVE Shown(_)
Shown(items) ==
  IF items = <<>> THEN <<>>
  ELSE <<Head(items).parent>> \o Head(items).children \o Shown(Tail(items))

\* the activities that arrived after number i with parentToolUseId i
ChildrenOf(i) ==
  SelectSeq(SubSeq(activities, i + 1, Len(activities)),
            LAMBDA a : a.parentToolUseId = i)

IsChild(a) ==
  /\ a.toolName # "Task"
  /\ a.parentToolUseId \in 1..(a.toolUseId - 1)
  /\ activities[a.parentToolUseId].toolName = "Task"

\* C15: grouping.  Every activity is shown exactly once; every Task is the
\* parent of a group whose children are the later activities with its
\* toolUseId as parentToolUseId, in arrival order; every other activity is a
\* top-level row; the top-level rows are in arrival order.
C15_Grouping ==
  rendered =>
    /\ Len(Shown(grouped)) = Len(activities)
    /\ \A a \in 1..Len(activities) :
         \E k \in 1..Len(Shown(grouped)) : Shown(grouped)[k] = activities[a]
    /\ \A a \in 1..Len(activities) :
         activities[a].toolName = "Task" =>
           \E i \in GroupRows :
             /\ grouped[i].parent = activities[a]
             /\ grouped[i].children = ChildrenOf(a)
    /\ \A a \in 1..Len(activities) :
         (activities[a].toolName # "Task" /\ ~IsChild(activities[a])) =>
           \E i \in 1..Len(grouped) : grouped[i] = Single(activities[a])
    /\ \A i, j \in 1..Len(grouped) :
         i < j => grouped[i].parent.toolUseId < grouped[j].parent.toolUseId

\* the list Task, child, child, where the group holds both children in order
C15_Witness ==
  /\ rendered
  /\ Len(activities) = 3
  /\ Len(grouped) = 1
  /\ IsActivityGroup(grouped[1])
  /\ grouped[1].children = <<activities[2], activities[3]>>

\* the notifications of one category sent so far
Count(c) == Cardinality({k \in 1..Len(sent) : sent[k].category = c})
CountNext(c) == Cardinality({k \in 1..Len(sent') : sent'[k].category = c})
Pending(c) == watcher # NoWatcher /\ timers[watcher][c] # NoTimer

\* C16: with one watcher running and the window open, every run of events of
\* one category (each event less than DEBOUNCE_MS after the one before) gives
\* one notification of that category: the runs that ended have one each, the
\* run in progress has its timer set to DEBOUNCE_MS after its last event, and
\* every notification was sent DEBOUNCE_MS after the last event before it.
C16_DebounceCollapse ==
  \A c \in Categories :
    /\ Count(c) = runs[c] - (IF Pending(c) THEN 1 ELSE 0)
    /\ Pending(c) => clock + timers[watcher][c] = lastEvent[c] + DEBOUNCE_MS
    /\ \A k \in 1..Len(sent) : sent[k].at = sent[k].after + DEBOUNCE_MS

\* five capability events in one run, over more than one window, one notification
C16_Witness ==
  /\ events["capabilities"] = 5
  /\ runs["capabilities"] = 1
  /\ Count("capabilities") = 1
  /\ \E k \in 1..Len(sent) : sent[k].at > DEBOUNCE_MS

\* C17: an event of one category leaves the timer of the other category as
\* it is (not cleared, not set again), and every notification is sent
\* DEBOUNCE_MS after the last event of its own category.
C17_IndependentChannels ==
  [][/\ \A f \in Filenames :
          (~Ignored(f, winDestroyed) /\ FsChange(f)) =>
            \A w \in WatcherIds :
              timers'[w][Other(Category(f))] = timers[w][Other(Category(f))]
     /\ \A c \in Categories :
          CountNext(c) > Count(c) => clock = lastEvent[c] + DEBOUNCE_MS]_vars

\* capability events around one file event: one notification of each, the
\* files one sent while the capability timer, set again later, was pending
C17_Witness ==
  /\ events["capabilities"] >= 2
  /\ events["files"] = 1
  /\ Count("capabilities") = 1
  /\ Count("files") = 1
  /\ \E i, j \in 1..Len(sent) :
       /\ sent[i].category = "files"
       /\ sent[j].category = "capabilities"
       /\ sent[i].after < sent[j].after
       /\ sent[j].after < sent[i].at

\* C18: once stopWorkspaceWatcher has returned (and until a later start
\* installs a watcher) no notification is sent.
C18_StopCancels == [][stopped => sent' = sent]_vars

\* C19: once the window is destroyed no notification is sent.
C19_NoDeliveryToDestroyed == [][winDestroyed => sent' = sent]_vars

\* an event set a timer while the window was open, the window was destroyed,
\* the timer has fired and nothing was sent
C19_Witness ==
  /\ winDestroyed
  /\ sent = <<>>
  /\ \E w \in openWatchers, c \in Categories :
       /\ lastEvent[c] # NoTimer
       /\ clock >= lastEvent[c] + DEBOUNCE_MS
       /\ timers[w][c] = NoTimer

\* C20: at most one FSWatcher is open at any time, and none is open once
\* stopWorkspaceWatcher has returned (until the next start).
C20_StartStopIdempotent ==
  /\ Cardinality(openWatchers) <= 1
  /\ stopped => openWatchers = {}

\* a path whose last component is mcp.json, or that passes through a
\* directory named skills, with either separator
Separators == {SEP, WSEP}
CapabilityPath(f) ==
  \/ /\ Len(f) >= 2
     /\ f[Len(f)] = "mcp.json"
     /\ f[Len(f) - 1] \in Separators
  \/ \E i \in 2..(Len(f) - 1) :
       /\ f[i] = "skills"
       /\ f[i - 1] \in Separators
       /\ f[i + 1] \in Separators
ExpectedCategory(f) == IF CapabilityPath(f) THEN "capabilities" ELSE "files"

\* C21: a change event that carries a path sets the timer of exactly one
\* category: the capabilities timer when the path ends in mcp.json or passes
\* through a skills directory ('/' or '\' as separator), the files timer for
\* every other path; the timer of the other category is left alone.
C21_Classification ==
  [][\A f \in Filenames :
       (~Ignored(f, winDestroyed) /\ FsChange(f)) =>
         \A w \in openWatchers :
           /\ timers'[w][ExpectedCategory(f)] = DEBOUNCE_MS
           /\ timers'[w][Other(ExpectedCategory(f))]
                = timers[w][Other(ExpectedCategory(f))]]_vars

\* floor(contextWindow * 0.775), as the claims state it (0.775 = 31/40)
Threshold(contextWindow) == (31 * contextWindow) \div 40
NotCompacting == ~props.isCompacting
PositiveTokens == IsSome(props.inputTokens) /\ ValueOf(props.inputTokens) > 0
PositiveWindow == IsSome(props.contextWindow) /\ ValueOf(props.contextWindow) > 0

\* C22: when not compacting, for positive integers inputTokens and
\* contextWindow with threshold = floor(contextWindow * 0.775) >= 1, the state
\* is warning exactly when 5 * inputTokens >= 4 * threshold and normal
\* otherwise; with contextWindow = 100000, 62000 tokens give warning and 50000
\* tokens give normal.
C22_Classification ==
  (NotCompacting /\ PositiveTokens /\ PositiveWindow
     /\ Threshold(ValueOf(props.contextWindow)) >= 1) =>
    LET i == ValueOf(props.inputTokens)
        t == Threshold(ValueOf(props.contextWindow))
    IN /\ badge.state = IF 5 * i >= 4 * t THEN "warning" ELSE "normal"
       /\ (ValueOf(props.contextWindow) = 100000 /\ i = 62000)
            => badge.state = "warning"
       /\ (ValueOf(props.contextWindow) = 100000 /\ i = 50000)
            => badge.state = "normal"
C22_Witness ==
  /\ NotCompacting
  /\ props.contextWindow = Some(100000)
  /\ props.inputTokens = Some(62000)
  /\ badge.threshold = Some(77500)
  /\ badge.state = "warning"

\* C23: whenever isCompacting is true the state is compacting, whatever
\* inputTokens and contextWindow are (absent and non-positive inputTokens
\* included), and a click then makes no compaction request.
C23_CompactingOverrides ==
  /\ [](props.isCompacting => badge.state = "compacting" /\ ~badge.enabled)
  /\ [][(props.isCompacting /\ props' = props)
          => compactRequests' = compactRequests]_vars
C23_Witness ==
  /\ props.isCompacting
  /\ ~PositiveTokens
  /\ badge.state = "compacting"
  /\ compactRequests = 1

\* C24: when not compacting and inputTokens is absent, zero or negative, the
\* badge reports no-data and shows nothing, whatever contextWindow is; the
\* normal state, however small its usage ratio, is shown and occurs only for
\* positive inputTokens.
C24_NoData ==
  /\ (NotCompacting /\ ~PositiveTokens) =>
        /\ badge.state = "no-data"
        /\ ~badge.shown
        /\ badge.percent = None
  /\ badge.state = "normal" =>
        /\ badge.shown
        /\ PositiveTokens
C24_Witness ==
  /\ NotCompacting
  /\ props.inputTokens = Some(0)
  /\ props.contextWindow = Some(100000)
  /\ badge.state = "no-data"

\* the list the selector shows holds a workspace with slug 'default'
ShowsDefault == \E i \in 1..Len(workspaces) : workspaces[i].slug = "default"
HoldsDefault == \E w \in backend : w.slug = "default"
\* the workspaces of a list, by id, that a step takes out of it
Slugs(list, ids) == {list[i].slug : i \in {j \in 1..Len(list) : list[j].id \in ids}}

\* a step removes only workspaces other than the default one, and only when
\* there is more than one
GuardedRemoval ==
  /\ \A w \in backend :
       w.id \notin {v.id : v \in backend'} =>
         (w.slug # "default" /\ Cardinality(backend) > 1)
  /\ ListIds(workspaces) \ ListIds(workspaces') # {} =>
       /\ "default" \notin
            Slugs(workspaces, ListIds(workspaces) \ ListIds(workspaces'))
       /\ Len(workspaces) > 1

\* C25: a workspace is deleted only if its slug is not 'default' and more
\* than one workspace exists; after any sequence of create, rename, select and
\* delete actions the workspace list is not empty and holds the workspace with
\* slug 'default', in the selector and in the main process.
C25_DeletionGuard ==
  /\ [](workspaces # <<>> /\ ShowsDefault /\ HoldsDefault)
  /\ [][GuardedRemoval]_vars
\* two workspaces were created and both were deleted: the default one is left
C25_Witness ==
  /\ nextWs = 4
  /\ pending = {}
  /\ backend = {DefaultWorkspace}
  /\ workspaces = <<DefaultWorkspace>>

\* the sessions the index file holds after the step
SessionsAfter == ReadIndex(indexFile').sessions
\* two session objects have the same fields (a missing key reads as undefined)
SameMeta(a, b) == \A k \in MetaKeys : Get(a, k) = Get(b, k)

\* C26: createSession returns a session whose id is not in the index, whose
\* title is the given title, or the default title when none or an empty one is
\* given, and whose createdAt equals updatedAt; the index afterwards is the
\* previous index with that one record appended, and no transcript changes.
C26_CreateFrame ==
  [][\A title \in Titles, channelId \in ChannelIds, workspaceId \in WorkspaceIds,
        wsFound \in BOOLEAN :
       CreateAgentSession(title, channelId, workspaceId, FALSE, wsFound) =>
         LET r == ret'.val
         IN  /\ ret'.out = "ok"
             /\ ~InIndex(r.id)
             /\ r.title = (IF title \in {Undef, ""} THEN DefaultTitle ELSE title)
             /\ r.createdAt = r.updatedAt
             /\ Len(SessionsAfter) = Len(Sessions) + 1
             /\ \A i \in 1..Len(Sessions) : SessionsAfter[i] = Sessions[i]
             /\ SameMeta(SessionsAfter[Len(SessionsAfter)], r)
             /\ Get(r, "channelId") = channelId
             /\ Get(r, "workspaceId") = workspaceId
             /\ transcripts' = transcripts]_vars
\* C26 witness: a session was created with an empty title while the index
\* held a session with a given title and a transcript held a message
C26_Witness ==
  /\ ret.op = "create" /\ ret.out = "ok"
  /\ Len(Sessions) >= 2
  /\ SameMeta(Sessions[Len(Sessions)], ret.val)
  /\ ret.val.title = DefaultTitle
  /\ \E i \in 1..(Len(Sessions) - 1) : Sessions[i].title = "T"
  /\ \E id \in Ids : GetAgentSessionMessages(id) # <<>>

\* the transcript of id holds something else than its fully written messages:
\* a write was cut short somewhere in it
Damaged(id) ==
  /\ id \notin deleted
  /\ transcripts[id].exists
  /\ transcripts[id].raw # FullText(appended[id])

\* C27: getMessages returns a value for every transcript; when a non-blank
\* line of the transcript does not parse, wherever it is, that value is the
\* empty sequence, whatever was written correctly; the blank line that split
\* leaves after the last line break is skipped and is no parse failure.
C27_ParseFailureDiscardsAll ==
  \A id \in Ids :
    /\ Damaged(id) => GetAgentSessionMessages(id) = <<>>
    /\ (\E i \in 1..Len(Split(transcripts[id].raw)) :
          LET line == Split(transcripts[id].raw)[i]
          IN  Trim(line) # <<>> /\ ~ParseLine(line).ok)
         => GetAgentSessionMessages(id) = <<>>
    /\ (transcripts[id].exists /\ ~Damaged(id) /\ id \notin deleted) =>
         GetAgentSessionMessages(id) = appended[id]
\* C27 witness: a message was appended in full after a write that was cut
\* short, and nothing is returned
C27_Witness ==
  /\ ret.op = "append" /\ ret.out = "ok"
  /\ Damaged(ret.id)
  /\ appended[ret.id] # <<>>
  /\ GetAgentSessionMessages(ret.id) = <<>>

\* C28: a session id that is not in the index has no stored messages: an
\* appendMessage on an id that was never created, or was deleted, does not
\* make getMessages(id) non-empty.
C28_IndexDecidesExistence ==
  \A id \in Ids : ~InIndex(id) => GetAgentSessionMessages(id) = <<>>

\* a notification of category c was sent later than time t
NotifiedAfter(c, t) ==
  \E k \in 1..Len(sent) : sent[k].category = c /\ sent[k].at > t

\* C29: with the watcher started and not stopped and the window open, every
\* change event that carries a path is eventually followed by a notification
\* of its category (capabilities for mcp.json and for paths through a skills
\* directory, files otherwise), once the events pause for a debounce window.
C29_NotificationLiveness ==
  \A f \in Filenames \ {NoFilename} :
    [](lastSeen[f] # NoTimer =>
         <>NotifiedAfter(ExpectedCategory(f), lastSeen[f]))

\* the same with the category the watcher gives the path
NotifiedAsClassified ==
  \A f \in Filenames \ {NoFilename} :
    [](lastSeen[f] # NoTimer => <>NotifiedAfter(Category(f), lastSeen[f]))

\* the step leaves every entry of the document but that of name as it was
OthersKept(name) ==
  \A other \in ServerNames \ {name} : configFile'[other] = configFile[other]

\* C30: a save from the form, a toggle and a delete change only the entry of
\* the named server: every other entry that is in the document just before
\* the save is still there and unchanged after it, also an entry written by
\* another writer after the page loaded its copy.
C30_NoLostEntries ==
  [][\A call \in inflight :
       (SaveSettled(call, FALSE) \/ SubmitSettled(call, FALSE))
         => OthersKept(call.name)]_vars
====
